---------------------------- MODULE Spec2Model ----------------------------
(***************************************************************************)
(* The BodyGraph engine of pyhd (src/src/pyhd/chart.py): the derived       *)
(* attributes of a Chart as functions of its Activated Gates and of the    *)
(* reference catalog (src/src/pyhd/constants/__init__.py).                 *)
(*                                                                         *)
(* A Chart is built once from two Imprints; after construction its set of  *)
(* Activated Gates never changes.  Every operation below is a read of one  *)
(* derived attribute of the Chart (a cached property or a method): it      *)
(* records which attribute was read, the value returned and the exception  *)
(* raised, if any.                                                         *)
(*                                                                         *)
(* Centers are represented by their names, Gates by their numbers 1..64,   *)
(* Channels by their position 1..36 in the catalog.  A Chart is the record *)
(* of its Activated Gates, Defined Channels and Defined Centers, which is  *)
(* the `self` every operator below takes as its first argument.            *)
(***************************************************************************)
EXTENDS Integers, Sequences, FiniteSets, TLC

(***************************************************************************)
(* Bounds of the model.                                                    *)
(***************************************************************************)
\* Largest number of Channels whose Gates the two Imprints activate.
MaxChannels == 4

\* Largest hash seed of a process: the seeds are 0..MaxHashSeed.
MaxHashSeed == 1

\* Largest number of Channels in the Charts on which is_connected is called.
MaxConnectedChannels == 2

\* Largest number of Centers in the target list passed to is_connected.
MaxTargets == 2

\* Largest number of Channels, and of further Activated Gates, in the
\* Charts on which the kind of Split is examined.
MaxSplitChannels == 2

MaxHanging == 1

\* The Defined Channels of a Chart whose Definitions are read: at most this
\* many.
MaxGroupedChannels == 3

\* Largest number of Activated Gates in the Charts drawn by their Gates.
MaxGates == 2

(***************************************************************************)
(* Reference catalog.                                                      *)
(***************************************************************************)
\* The 9 Centers, in the order the enumeration declares them.
CenterNames ==
    <<"Root", "Splenic", "Sacral", "Solar Plexus", "Heart", "G", "Throat", "Ajna", "Head">>

Centers == {CenterNames[i] : i \in 1..Len(CenterNames)}

\* sorted(Centers): SuperEnum.__lt__ compares members without a `num` field
\* by name, so the Centers sort alphabetically.
SortedCenterNames ==
    <<"Ajna", "G", "Head", "Heart", "Root", "Sacral", "Solar Plexus", "Splenic", "Throat">>

NUM_GATES == 64

Gates == 1..NUM_GATES

\* The `center` field of the 64 Gates, by Gate number.
GateCenter ==
    <<
       "G",            "G",            "Sacral",       "Ajna",          \* 1..4
       "Sacral",       "Solar Plexus", "G",            "Throat",        \* 5..8
       "Sacral",       "G",            "Ajna",         "Throat",        \* 9..12
       "G",            "Sacral",       "G",            "Throat",        \* 13..16
       "Ajna",         "Splenic",      "Root",         "Throat",        \* 17..20
       "Heart",        "Solar Plexus", "Throat",       "Ajna",          \* 21..24
       "G",            "Heart",        "Sacral",       "Splenic",       \* 25..28
       "Sacral",       "Solar Plexus", "Throat",       "Splenic",       \* 29..32
       "Throat",       "Sacral",       "Throat",       "Solar Plexus",  \* 33..36
       "Solar Plexus", "Root",         "Root",         "Heart",         \* 37..40
       "Root",         "Sacral",       "Ajna",         "Splenic",       \* 41..44
       "Throat",       "G",            "Ajna",         "Splenic",       \* 45..48
       "Solar Plexus", "Splenic",      "Heart",        "Root",          \* 49..52
       "Root",         "Root",         "Solar Plexus", "Throat",        \* 53..56
       "Splenic",      "Root",         "Sacral",       "Root",          \* 57..60
       "Head",         "Throat",       "Head",         "Head"           \* 61..64
    >>

\* The 36 Channels in catalog order: the `gates` and `centers` fields.
Channels ==
    <<
       [gates |-> << 1,  8>>, centers |-> <<"G", "Throat">>],
       [gates |-> << 2, 14>>, centers |-> <<"G", "Sacral">>],
       [gates |-> << 3, 60>>, centers |-> <<"Sacral", "Root">>],
       [gates |-> << 4, 63>>, centers |-> <<"Ajna", "Head">>],
       [gates |-> << 5, 15>>, centers |-> <<"Sacral", "G">>],
       [gates |-> << 6, 59>>, centers |-> <<"Solar Plexus", "Sacral">>],
       [gates |-> << 7, 31>>, centers |-> <<"G", "Throat">>],
       [gates |-> << 9, 52>>, centers |-> <<"Sacral", "Root">>],
       [gates |-> <<10, 20>>, centers |-> <<"G", "Throat">>],
       [gates |-> <<10, 34>>, centers |-> <<"G", "Sacral">>],
       [gates |-> <<10, 57>>, centers |-> <<"G", "Splenic">>],
       [gates |-> <<11, 56>>, centers |-> <<"Ajna", "Throat">>],
       [gates |-> <<12, 22>>, centers |-> <<"Throat", "Solar Plexus">>],
       [gates |-> <<13, 33>>, centers |-> <<"G", "Throat">>],
       [gates |-> <<16, 48>>, centers |-> <<"Throat", "Splenic">>],
       [gates |-> <<17, 62>>, centers |-> <<"Ajna", "Throat">>],
       [gates |-> <<18, 58>>, centers |-> <<"Splenic", "Root">>],
       [gates |-> <<19, 49>>, centers |-> <<"Root", "Solar Plexus">>],
       [gates |-> <<20, 34>>, centers |-> <<"Throat", "Sacral">>],
       [gates |-> <<20, 57>>, centers |-> <<"Throat", "Splenic">>],
       [gates |-> <<21, 45>>, centers |-> <<"Heart", "Throat">>],
       [gates |-> <<23, 43>>, centers |-> <<"Throat", "Ajna">>],
       [gates |-> <<24, 61>>, centers |-> <<"Ajna", "Head">>],
       [gates |-> <<25, 51>>, centers |-> <<"G", "Heart">>],
       [gates |-> <<26, 44>>, centers |-> <<"Heart", "Splenic">>],
       [gates |-> <<27, 50>>, centers |-> <<"Sacral", "Splenic">>],
       [gates |-> <<28, 38>>, centers |-> <<"Splenic", "Root">>],
       [gates |-> <<29, 46>>, centers |-> <<"Sacral", "G">>],
       [gates |-> <<30, 41>>, centers |-> <<"Solar Plexus", "Root">>],
       [gates |-> <<32, 54>>, centers |-> <<"Splenic", "Root">>],
       [gates |-> <<34, 57>>, centers |-> <<"Sacral", "Splenic">>],
       [gates |-> <<35, 36>>, centers |-> <<"Throat", "Solar Plexus">>],
       [gates |-> <<37, 40>>, centers |-> <<"Solar Plexus", "Heart">>],
       [gates |-> <<39, 55>>, centers |-> <<"Root", "Solar Plexus">>],
       [gates |-> <<42, 53>>, centers |-> <<"Sacral", "Root">>],
       [gates |-> <<47, 64>>, centers |-> <<"Ajna", "Head">>]
    >>

ChannelIds == 1..Len(Channels)

MOTOR_CENTERS == <<"Root", "Sacral", "Solar Plexus", "Heart">>

NON_SACRAL_MOTOR_CENTERS == <<"Root", "Solar Plexus", "Heart">>

CLASSIC_PROJECTOR_CENTERS == <<"Splenic", "G">>

MENTAL_PROJECTOR_CENTERS == <<"Throat", "Ajna", "Head">>

(***************************************************************************)
(* Helpers on tuples and catalog lookups.                                  *)
(***************************************************************************)
\* The members of a tuple.
Range(s) == {s[i] : i \in 1..Len(s)}

\* Channel.gates and Channel.centers as sets, for every Channel.
GatesOf == [id \in ChannelIds |-> {Channels[id].gates[1], Channels[id].gates[2]}]

CentersOf == [id \in ChannelIds |-> {Channels[id].centers[1], Channels[id].centers[2]}]

\* Channels.harmonic_center: the Center at the other end of the Channel.
harmonic_center(id, center) ==
    IF Channels[id].centers[2] = center
    THEN Channels[id].centers[1]
    ELSE Channels[id].centers[2]

\* Channels.connecting_centers: the Channels joining two given Centers.
connecting_centers(center1, center2) ==
    {id \in ChannelIds : CentersOf[id] = {center1, center2}}

\* Centers.channels: the Channels that have the Center at one end.
CenterChannels == [center \in Centers |-> {id \in ChannelIds : center \in CentersOf[id]}]

\* list(Channels): the Channels in catalog order.
ChannelList == [i \in ChannelIds |-> i]

(***************************************************************************)
(* State.                                                                  *)
(***************************************************************************)
VARIABLES
    chart,    \* the Chart: its gates, channels and centers
    call,     \* the attribute read last ("none" right after construction)
    args,     \* the arguments of that read (is_connected only)
    ret,      \* the name of the catalog member returned ("" otherwise)
    flag,     \* the boolean returned (is_connected only)
    defs,     \* the tuple of tuples of Centers returned (definitions only)
    raised    \* the exception raised by the read ("" when it returned)

vars == <<chart, call, args, ret, flag, defs, raised>>

(***************************************************************************)
(* What a read produces: a returned value or a raised exception.           *)
(***************************************************************************)
Return(v) == [raised |-> "", value |-> v]

Raise(e) == [raised |-> e, value |-> ""]

RaiseB(e) == [raised |-> e, value |-> FALSE]

(***************************************************************************)
(* Iteration order of a Python set of Centers.  A set iterates its table   *)
(* by slot, and the slot of an Enum member comes from the hash of its      *)
(* name, which is salted per process: the order is fixed inside one        *)
(* process and differs between processes.  A seed stands for the salt.     *)
(***************************************************************************)
HashSeeds == 0..MaxHashSeed

CenterIndex ==
    [center \in Centers |-> CHOOSE i \in 1..Len(CenterNames) : CenterNames[i] = center]

\* Number of slots of the table (a prime larger than the number of Centers).
TableSlots == Len(CenterNames) + 2

HashSlot(center, seed) == (CenterIndex[center] * (seed + 1)) % TableSlots

\* All nine Centers in the order in which a set holding them all iterates,
\* for every seed.
IterOrder ==
    [seed \in HashSeeds |->
        [i \in 1..Len(CenterNames) |->
            CHOOSE c \in Centers :
                Cardinality({d \in Centers : HashSlot(d, seed) < HashSlot(c, seed)})
                    = i - 1]]

\* list(S) for a set S of Centers, under the given iteration order.
SetIter(S, order) == SelectSeq(order, LAMBDA c : c \in S)

(***************************************************************************)
(* Chart: lists derived from the Activated Gates.                          *)
(***************************************************************************)
\* Chart.channels: the Defined Channels, a tuple in catalog order.
channels(gs) == SelectSeq(ChannelList, LAMBDA id : GatesOf[id] \subseteq gs)

\* Chart.centers: the Defined Centers, a sorted tuple without duplicates.
centers(chs) ==
    LET defined == UNION {CentersOf[chs[i]] : i \in 1..Len(chs)}
    IN  SelectSeq(SortedCenterNames, LAMBDA c : c \in defined)

\* The Chart whose two Imprints activate the Gates gs.
Chart(gs) ==
    [gates |-> gs, channels |-> channels(gs), centers |-> centers(channels(gs))]

\* num_centers counting the Activated Gates instead of the Defined Centers.
num_centers_counts_gates(self) == Cardinality(self.gates)

num_centers(self) == Len(self.centers)

has_center(self, center) == center \in Range(self.centers)

has_channel(self, id) == id \in Range(self.channels)

has_any_center(self, cs) == \E i \in 1..Len(cs) : has_center(self, cs[i])

has_any_channel(self, ids) == \E id \in ids : has_channel(self, id)

(***************************************************************************)
(* Chart.definitions: the connected components of the Defined Centers.     *)
(***************************************************************************)
\* graph: Center -> set of the Centers a Defined Channel joins it to.
\* AdjacencyGraph with `graph[center2].add(center1)` left out: every Channel
\* is an edge from its first Center to its second only.
AdjacencyGraphOneWay(self) ==
    [c \in Range(self.centers) |->
        {harmonic_center(id, c) :
            id \in {j \in CenterChannels[c] \cap Range(self.channels) :
                       Channels[j].centers[1] = c}}]

AdjacencyGraph(self) ==
    [c \in Range(self.centers) |->
        {harmonic_center(id, c) : id \in CenterChannels[c] \cap Range(self.channels)}]

\* The `while stack:` loop: one traversal, started from the given stack.
RECURSIVE VisitStack(_, _, _, _, _)
VisitStack(graph, order, stack, visited, group) ==
    IF stack = <<>>
    THEN [visited |-> visited, group |-> group]
    ELSE LET current == stack[Len(stack)]
             rest == SubSeq(stack, 1, Len(stack) - 1)
         IN  IF current \in visited
             THEN VisitStack(graph, order, rest, visited, group)
             ELSE LET visited2 == visited \cup {current}
                      group2 == IF current \notin Range(group)
                                THEN Append(group, current)
                                ELSE group
                      pushed == SetIter(graph[current] \ visited2, order)
                  IN  VisitStack(graph, order, rest \o pushed, visited2, group2)

\* VisitCenters with a `visited` set that is local to each traversal: the
\* Centers one traversal reaches are not remembered by the next.
RECURSIVE VisitCentersLocalVisited(_, _, _, _, _)
VisitCentersLocalVisited(graph, order, todo, visited, groups) ==
    IF todo = <<>>
    THEN groups
    ELSE LET r == VisitStack(graph, order, <<Head(todo)>>, {}, <<>>)
         IN  VisitCentersLocalVisited(graph, order, Tail(todo), visited,
                                      Append(groups, r.group))

\* The `for center in self.centers:` loop: one group per unvisited Center.
RECURSIVE VisitCenters(_, _, _, _, _)
VisitCenters(graph, order, todo, visited, groups) ==
    IF todo = <<>>
    THEN groups
    ELSE IF Head(todo) \in visited
         THEN VisitCenters(graph, order, Tail(todo), visited, groups)
         ELSE LET r == VisitStack(graph, order, <<Head(todo)>>, visited, <<>>)
              IN  VisitCenters(graph, order, Tail(todo), r.visited,
                               Append(groups, r.group))

definitions(self, seed) ==
    IF self.centers = <<>>
    THEN <<>>
    ELSE VisitCenters(AdjacencyGraph(self), IterOrder[seed], self.centers, {}, <<>>)

num_definitions(self, seed) == Len(definitions(self, seed))

(***************************************************************************)
(* Chart.definition_type.                                                  *)
(***************************************************************************)
\* Chart._is_simple_split, called with exactly two Definitions.
is_simple_split(self, seed) ==
    LET ds == definitions(self, seed)
        definition1 == Range(ds[1])
        definition2 == Range(ds[2])
    IN  \E center \in definition1 :
            \E id \in CenterChannels[center] :
                /\ ~has_channel(self, id)
                /\ harmonic_center(id, center) \notin definition1
                /\ harmonic_center(id, center) \in definition2

\* definition_type with `case 4` left out: four Definitions fall through to
\* the final raise.
definition_type_without_case4(self, seed) ==
    LET n == num_definitions(self, seed)
    IN  CASE n = 0 -> Return("No")
          [] n = 1 -> Return("Single")
          [] n = 2 -> IF is_simple_split(self, seed)
                      THEN Return("Simple-Split")
                      ELSE Return("Wide-Split")
          [] n = 3 -> Return("Triple-Split")
          [] OTHER -> Raise("Exception")

definition_type(self, seed) ==
    LET n == num_definitions(self, seed)
    IN  CASE n = 0 -> Return("No")
          [] n = 1 -> Return("Single")
          [] n = 2 -> IF is_simple_split(self, seed)
                      THEN Return("Simple-Split")
                      ELSE Return("Wide-Split")
          [] n = 3 -> Return("Triple-Split")
          [] n = 4 -> Return("Quadruple-Split")
          [] OTHER -> Raise("Exception")

(***************************************************************************)
(* Chart.authority.                                                        *)
(***************************************************************************)
\* authority without the test of a Channel between G and Throat.
authority_without_self_projected(self) ==
    IF num_centers(self) = 0 THEN "Lunar"
    ELSE IF has_center(self, "Solar Plexus") THEN "Solar Plexus"
    ELSE IF has_center(self, "Sacral") THEN "Sacral"
    ELSE IF has_center(self, "Splenic") THEN "Splenic"
    ELSE IF has_any_channel(self, connecting_centers("Heart", "Throat"))
         THEN "Ego Manifested"
    ELSE IF has_any_channel(self, connecting_centers("Heart", "G"))
         THEN "Ego Projected"
    ELSE "Outer Authority"

\* authority with the Sacral test written before the Solar Plexus test.
authority_sacral_first(self) ==
    IF num_centers(self) = 0 THEN "Lunar"
    ELSE IF has_center(self, "Sacral") THEN "Sacral"
    ELSE IF has_center(self, "Solar Plexus") THEN "Solar Plexus"
    ELSE IF has_center(self, "Splenic") THEN "Splenic"
    ELSE IF has_any_channel(self, connecting_centers("Heart", "Throat"))
         THEN "Ego Manifested"
    ELSE IF has_any_channel(self, connecting_centers("Heart", "G"))
         THEN "Ego Projected"
    ELSE IF has_any_channel(self, connecting_centers("G", "Throat"))
         THEN "Self Projected"
    ELSE "Outer Authority"

authority(self) ==
    IF num_centers(self) = 0 THEN "Lunar"
    ELSE IF has_center(self, "Solar Plexus") THEN "Solar Plexus"
    ELSE IF has_center(self, "Sacral") THEN "Sacral"
    ELSE IF has_center(self, "Splenic") THEN "Splenic"
    ELSE IF has_any_channel(self, connecting_centers("Heart", "Throat"))
         THEN "Ego Manifested"
    ELSE IF has_any_channel(self, connecting_centers("Heart", "G"))
         THEN "Ego Projected"
    ELSE IF has_any_channel(self, connecting_centers("G", "Throat"))
         THEN "Self Projected"
    ELSE "Outer Authority"

(***************************************************************************)
(* Chart.is_connected and Chart.type.                                      *)
(***************************************************************************)
\* `self.definitions()`: definitions is a cached property, so the attribute
\* is already the tuple of Definitions, and calling a tuple raises TypeError.
CallDefinitions(ds) == [raised |-> "TypeError", value |-> ds]

is_connected(self, center, target_centers, seed) ==
    IF center \notin Range(self.centers)
    THEN Return(FALSE)
    ELSE LET targets == SelectSeq(target_centers,
                                  LAMBDA c : c \in Range(self.centers))
         IN  IF targets = <<>>
             THEN Return(FALSE)
             ELSE LET called == CallDefinitions(definitions(self, seed))
                      holding == {i \in 1..Len(called.value) :
                                      center \in Range(called.value[i])}
                  IN  IF called.raised # ""
                      THEN RaiseB(called.raised)
                      ELSE IF holding = {}
                      THEN Return(FALSE)
                      ELSE LET definition ==
                                   called.value[CHOOSE i \in holding :
                                                    \A j \in holding : i <= j]
                           IN  Return(\E t \in Range(targets) :
                                          t \in Range(definition))

\* bool(self.has_motor): has_motor is a method and the attribute is read
\* without calling it; a bound method object is always true.
has_motor_attribute(self) == TRUE

\* `not other_defined_centers`: other_defined_centers is a generator
\* expression, and a generator object is always true, so its `not` is false.
not_generator(others) == FALSE

type(self, seed) ==
    IF num_centers(self) = 0
    THEN Return("Reflector")
    ELSE LET has_throat_connection ==
                 is_connected(self, "Throat", NON_SACRAL_MOTOR_CENTERS, seed)
             other_than(cs) ==
                 SelectSeq(self.centers, LAMBDA c : c \notin Range(cs))
         IN  IF has_throat_connection.raised # ""
             THEN Raise(has_throat_connection.raised)
             ELSE IF has_center(self, "Sacral")
             THEN IF has_throat_connection.value
                  THEN Return("Manifesting Generator")
                  ELSE Return("Pure Generator")
             ELSE IF has_throat_connection.value
             THEN Return("Manifestor")
             ELSE IF has_motor_attribute(self)
             THEN Return("Energy Projector")
             ELSE IF /\ has_any_center(self, CLASSIC_PROJECTOR_CENTERS)
                     /\ not_generator(other_than(CLASSIC_PROJECTOR_CENTERS))
             THEN Return("Classic Projector")
             ELSE IF /\ has_any_center(self, MENTAL_PROJECTOR_CENTERS)
                     /\ not_generator(other_than(MENTAL_PROJECTOR_CENTERS))
             THEN Return("Mental Projector")
             ELSE Raise("ValueError")

\* Chart.has_motor(), the method when it is called.
has_motor(self) == has_any_center(self, MOTOR_CENTERS)

(***************************************************************************)
(* Construction: the Activated Gates the two Imprints leave in the Chart.  *)
(***************************************************************************)
\* The sets of at most n Channels.
RECURSIVE ChannelSets(_)
ChannelSets(n) ==
    IF n = 0
    THEN {{}}
    ELSE LET smaller == ChannelSets(n - 1)
         IN  smaller \cup {S \cup {id} : S \in smaller, id \in ChannelIds}

\* The sets of at most n Gates.
RECURSIVE GateSets(_)
GateSets(n) ==
    IF n = 0
    THEN {{}}
    ELSE LET smaller == GateSets(n - 1)
         IN  smaller \cup {S \cup {g} : S \in smaller, g \in Gates}

\* The sets of at most n Centers.
RECURSIVE CenterSets(_)
CenterSets(n) ==
    IF n = 0
    THEN {{}}
    ELSE LET smaller == CenterSets(n - 1)
         IN  smaller \cup {S \cup {c} : S \in smaller, c \in Centers}

\* Chart.gates when the two Imprints activate the Gates of the given Channels.
GatesOfChannels(S) == UNION {GatesOf[id] : id \in S}

\* The Chart is built: the Imprints activate the Gates of at most
\* maxChannels Channels (none, or a set of fewer Channels and one Channel
\* that comes later in the catalog) and at most maxHanging further Gates.
ChartBuilt(maxChannels, maxHanging) ==
    \E H \in GateSets(maxHanging) :
        \/ chart = Chart(H)
        \/ \E S \in ChannelSets(maxChannels - 1), id \in ChannelIds :
              /\ \A j \in S : j < id
              /\ chart = Chart(GatesOfChannels(S \cup {id}) \cup H)

NoArgs == [center |-> "", targets |-> <<>>]

NothingRead ==
    /\ call = "none"
    /\ args = NoArgs
    /\ ret = ""
    /\ flag = FALSE
    /\ defs = <<>>
    /\ raised = ""

Init == ChartBuilt(MaxChannels, 0) /\ NothingRead

InitConnected == ChartBuilt(MaxConnectedChannels, 0) /\ NothingRead

InitDefinitions == ChartBuilt(MaxGroupedChannels, 0) /\ NothingRead

InitSplit == ChartBuilt(MaxSplitChannels, MaxHanging) /\ NothingRead

(***************************************************************************)
(* Operations: reads of the derived attributes of the Chart.               *)
(***************************************************************************)
ReadAuthority ==
    /\ call = "none"
    /\ call' = "authority"
    /\ ret' = authority(chart)
    /\ raised' = ""
    /\ UNCHANGED <<chart, args, flag, defs>>

ReadType ==
    /\ call = "none"
    /\ \E seed \in HashSeeds :
          \E r \in {type(chart, seed)} :
              /\ ret' = r.value
              /\ raised' = r.raised
    /\ call' = "type"
    /\ UNCHANGED <<chart, args, flag, defs>>

ReadDefinitions ==
    /\ call = "none"
    /\ \E seed \in HashSeeds : defs' = definitions(chart, seed)
    /\ call' = "definitions"
    /\ raised' = ""
    /\ UNCHANGED <<chart, args, ret, flag>>

ReadDefinitionType ==
    /\ call = "none"
    /\ \E seed \in HashSeeds :
          \E r \in {definition_type(chart, seed)} :
              /\ ret' = r.value
              /\ raised' = r.raised
    /\ call' = "definition_type"
    /\ UNCHANGED <<chart, args, flag, defs>>

\* The target lists passed to is_connected: the lists of the catalog, and
\* every list of at most MaxTargets distinct Centers.
TargetLists ==
    {MOTOR_CENTERS, NON_SACRAL_MOTOR_CENTERS, CLASSIC_PROJECTOR_CENTERS,
     MENTAL_PROJECTOR_CENTERS}
        \cup {SetIter(T, CenterNames) : T \in CenterSets(MaxTargets)}

CallIsConnected ==
    /\ call = "none"
    /\ \E center \in Centers, targets \in TargetLists, seed \in HashSeeds :
          \E r \in {is_connected(chart, center, targets, seed)} :
              /\ args' = [center |-> center, targets |-> targets]
              /\ flag' = r.value
              /\ raised' = r.raised
    /\ call' = "is_connected"
    /\ UNCHANGED <<chart, ret, defs>>

Next ==
    \/ ReadAuthority
    \/ ReadType
    \/ ReadDefinitions
    \/ ReadDefinitionType

\* Every Chart of at most MaxChannels Channels, and one read of any of its
\* derived attributes.
Spec == Init /\ [][Next]_vars

\* The same Charts, and one read of the named attribute.
SpecAuthority == Init /\ [][ReadAuthority]_vars

SpecDefinitionType == Init /\ [][ReadDefinitionType]_vars

\* Charts of at most MaxGroupedChannels Channels, and one read of their
\* Definitions under any iteration order of the sets.
SpecDefinitions == InitDefinitions /\ [][ReadDefinitions]_vars

\* Charts of few Channels, and one call of is_connected with any arguments.
SpecConnected == InitConnected /\ [][CallIsConnected]_vars

\* Charts with Activated Gates outside their Defined Channels, and one read
\* of the Definition Type.
SpecSplit == InitSplit /\ [][ReadDefinitionType]_vars

TypeOK ==
    /\ chart.gates \subseteq Gates
    /\ call \in {"none", "authority", "type", "definitions", "definition_type",
                 "is_connected", "gates", "channels", "centers", "Profiles.get",
                 "profile", "cross", "to_dict", "to_light_model", "to_model",
                 "variable_orientations", "_compute_data", "get_design_datetime"}
    /\ flag \in BOOLEAN
(***************************************************************************)
(* The vocabulary of the specification, stated on the Chart's Activated    *)
(* Gates and the catalog alone, without the traversal of the code.         *)
(***************************************************************************)
\* The Channels whose two Gates are both Activated.
DefinedChannels(gs) == {id \in ChannelIds : GatesOf[id] \subseteq gs}

\* The Centers at the ends of the Channels chs.
EndsOf(chs) == UNION {CentersOf[id] : id \in chs}

\* The Defined Centers: the ends of the Defined Channels.
DefinedCenters(gs) == EndsOf(DefinedChannels(gs))

\* Some Channel of chs has the Centers c and d at its two ends.
Joined(chs, c, d) == \E id \in chs : CentersOf[id] = {c, d}

\* The Centers a path of Channels of chs reaches from the Centers of S.
RECURSIVE ReachedFrom(_, _)
ReachedFrom(chs, S) ==
    LET T == S \cup EndsOf({id \in chs : CentersOf[id] \cap S # {}})
    IN  IF T = S THEN S ELSE ReachedFrom(chs, T)

\* The maximal sets of Defined Centers joined by paths of Defined Channels.
Areas(gs) ==
    LET chs == DefinedChannels(gs)
    IN  {ReachedFrom(chs, {c}) : c \in EndsOf(chs)}

\* The Throat is joined to a Defined Root, Solar Plexus or Heart.
ThroatToMotor ==
    LET chs == DefinedChannels(chart.gates)
    IN  /\ "Throat" \in EndsOf(chs)
        /\ ReachedFrom(chs, {"Throat"}) \cap Range(NON_SACRAL_MOTOR_CENTERS) # {}

TypeNames ==
    {"Reflector", "Pure Generator", "Manifesting Generator", "Manifestor",
     "Energy Projector", "Classic Projector", "Mental Projector"}

RECURSIVE SumLen(_)
SumLen(groups) ==
    IF groups = <<>> THEN 0 ELSE Len(Head(groups)) + SumLen(Tail(groups))

(***************************************************************************)
(* Claims about Chart.type and Chart.is_connected.                         *)
(***************************************************************************)
\* C1: Chart.type always returns exactly one of the seven Types (Reflector,
\* Pure Generator, Manifesting Generator, Manifestor, Energy Projector,
\* Classic Projector, Mental Projector) and never raises.
C1_TypeIsOneOfSeven ==
    call = "type" => raised = "" /\ ret \in TypeNames

\* C2: is_connected(center, targets) never raises; it is false when center
\* is Undefined, and otherwise true exactly when some Defined Center of
\* targets lies in the same Definition as center.
C2_IsConnectedMeaning ==
    call = "is_connected" =>
        /\ raised = ""
        /\ flag = LET chs == DefinedChannels(chart.gates)
                   IN  /\ args.center \in EndsOf(chs)
                       /\ ReachedFrom(chs, {args.center})
                              \cap Range(args.targets) # {}

\* C3: with at least one Defined Center: when Sacral is Defined the Type is
\* Manifesting Generator if the Throat is connected to Root, Solar Plexus or
\* Heart and Pure Generator otherwise; when Sacral is Undefined and the
\* Throat is so connected the Type is Manifestor.
C3_GeneratorsAndManifestor ==
    call = "type" /\ DefinedCenters(chart.gates) # {} =>
        /\ "Sacral" \in DefinedCenters(chart.gates) =>
              /\ raised = ""
              /\ ret = IF ThroatToMotor THEN "Manifesting Generator"
                                        ELSE "Pure Generator"
        /\ "Sacral" \notin DefinedCenters(chart.gates) /\ ThroatToMotor =>
              raised = "" /\ ret = "Manifestor"

\* C4: with at least one Defined Center, Sacral Undefined and the Throat not
\* connected to Root, Solar Plexus or Heart: the Type is Energy Projector if
\* and only if some motor Center is Defined; otherwise Classic Projector
\* when every Defined Center is Splenic or G; otherwise Mental Projector
\* when every Defined Center is Throat, Ajna or Head.
C4_Projectors ==
    LET defined == DefinedCenters(chart.gates)
        motor == defined \cap Range(MOTOR_CENTERS) # {}
        classic == defined \subseteq Range(CLASSIC_PROJECTOR_CENTERS)
        mental == defined \subseteq Range(MENTAL_PROJECTOR_CENTERS)
    IN  call = "type" /\ defined # {} /\ "Sacral" \notin defined
            /\ ~ThroatToMotor =>
            /\ (ret = "Energy Projector") <=> motor
            /\ ~motor /\ classic => ret = "Classic Projector"
            /\ ~motor /\ ~classic /\ mental => ret = "Mental Projector"

(***************************************************************************)
(* Claims about Chart.definitions.                                         *)
(***************************************************************************)
\* C5: Chart.definitions is a partition of Chart.centers: every Defined
\* Center is in exactly one Definition, no Definition is empty, and no
\* Definition holds a Center that is not Defined.
C5_DefinitionsPartition ==
    call = "definitions" =>
        /\ \A c \in Range(chart.centers) :
              Cardinality({i \in 1..Len(defs) : c \in Range(defs[i])}) = 1
        /\ \A i \in 1..Len(defs) :
              /\ defs[i] # <<>>
              /\ Range(defs[i]) \subseteq DefinedCenters(chart.gates)
        /\ SumLen(defs) = Cardinality(DefinedCenters(chart.gates))

\* C5 witness: definitions was read on a Chart with several Definitions, one
\* of them of three or more Centers.
C5_Witness ==
    /\ call = "definitions"
    /\ Len(defs) >= 2
    /\ \E i \in 1..Len(defs) : Len(defs[i]) >= 3

\* C6: two Defined Centers are in the same Definition if and only if a path
\* of Defined Channels joins them; the two Centers of a Defined Channel are
\* in the same Definition.
C6_DefinitionsAreConnectedAreas ==
    LET chs == DefinedChannels(chart.gates)
        area == [c \in EndsOf(chs) |-> ReachedFrom(chs, {c})]
    IN  call = "definitions" =>
            /\ \A c, d \in EndsOf(chs) :
                  (\E i \in 1..Len(defs) : {c, d} \subseteq Range(defs[i]))
                      <=> d \in area[c]
            /\ \A id \in chs :
                  \E i \in 1..Len(defs) : CentersOf[id] \subseteq Range(defs[i])

\* C6 witness: definitions was read on a Chart where two Centers share a
\* Definition without a Channel between them, and two others do not share
\* one.
C6_Witness ==
    /\ call = "definitions"
    /\ \E i \in 1..Len(defs) : \E c, d \in Range(defs[i]) :
          c # d /\ ~Joined(DefinedChannels(chart.gates), c, d)
    /\ \E i, j \in 1..Len(defs) : i # j

\* C7: for a fixed set of Activated Gates, Chart.definitions is the same
\* sequence of Definitions, with the same order of Centers inside each, on
\* every run, whatever the iteration order of the adjacency sets.
C7_DefinitionsOrderIsFixed ==
    call = "definitions" =>
        \A seed \in HashSeeds : defs = definitions(chart, seed)

(***************************************************************************)
(* Claims about Chart.definition_type.                                     *)
(***************************************************************************)
\* Activating one more Gate leaves a single area of definition.
OneGateJoins ==
    \E g \in Gates \ chart.gates :
        Cardinality(Areas(chart.gates \cup {g})) = 1

\* C8: with exactly two Definitions, the Definition Type is Simple-Split
\* exactly when one single additional Activated Gate would join the two
\* Definitions into one, and Wide-Split when more than one is needed.
C8_SimpleSplitIsOneGate ==
    call = "definition_type" /\ Cardinality(Areas(chart.gates)) = 2 =>
        /\ raised = ""
        /\ ret = IF OneGateJoins THEN "Simple-Split" ELSE "Wide-Split"

AuthorityRules ==
    LET gs == DefinedChannels(chart.gates)
        defined == EndsOf(gs)
    IN  << [when |-> defined = {}, gives |-> "Lunar"],
           [when |-> "Solar Plexus" \in defined, gives |-> "Solar Plexus"],
           [when |-> "Sacral" \in defined, gives |-> "Sacral"],
           [when |-> "Splenic" \in defined, gives |-> "Splenic"],
           [when |-> Joined(gs, "Heart", "Throat"), gives |-> "Ego Manifested"],
           [when |-> Joined(gs, "Heart", "G"), gives |-> "Ego Projected"],
           [when |-> Joined(gs, "G", "Throat"), gives |-> "Self Projected"],
           [when |-> TRUE, gives |-> "Outer Authority"] >>

\* C10: Chart.authority is the first match of: no Defined Center, Lunar;
\* Solar Plexus Defined, Solar Plexus; Sacral Defined, Sacral; Splenic
\* Defined, Splenic; a Defined Channel between Heart and Throat, Ego
\* Manifested; between Heart and G, Ego Projected; between G and Throat,
\* Self Projected; otherwise Outer Authority.
C10_AuthorityFirstMatch ==
    call = "authority" =>
        /\ raised = ""
        /\ \E k \in 1..Len(AuthorityRules) :
              /\ AuthorityRules[k].when
              /\ \A j \in 1..(k - 1) : ~AuthorityRules[j].when
              /\ ret = AuthorityRules[k].gives

\* C10 witness: authority was read on a Chart that matches several rules
\* and got the first of them.
C10_Witness ==
    /\ call = "authority"
    /\ Cardinality({k \in 1..Len(AuthorityRules) : AuthorityRules[k].when}) >= 4
    /\ ret = "Ego Manifested"

(***************************************************************************)
(* The classifications of one Chart: Authority, Type and Definition Type.  *)
(***************************************************************************)
\* The Chart is built from any set of at most MaxGates Activated Gates, or
\* from the Gates of at most MaxGroupedChannels Channels.
InitClassify ==
    /\ \/ \E gs \in GateSets(MaxGates) : chart = Chart(gs)
       \/ ChartBuilt(MaxGroupedChannels, 0)
    /\ NothingRead

NextClassify ==
    \/ ReadAuthority
    \/ ReadType
    \/ ReadDefinitionType

SpecClassify == InitClassify /\ [][NextClassify]_vars

\* C11: for every Chart these are equivalent: no Center is Defined; the
\* Authority is Lunar; the Type is Reflector; the Definition Type is No.  In
\* particular a Chart with no Defined Channel has Authority Lunar, Type
\* Reflector and Definition Type No.
C11_ReflectorEquivalence ==
    LET none == DefinedCenters(chart.gates) = {}
    IN  /\ DefinedChannels(chart.gates) = {} => none
        /\ call = "authority" => ((raised = "" /\ ret = "Lunar") <=> none)
        /\ call = "type" => ((raised = "" /\ ret = "Reflector") <=> none)
        /\ call = "definition_type" => ((raised = "" /\ ret = "No") <=> none)

\* C11 witness: the Type was read on a Chart that has Activated Gates and
\* no Defined Channel, and is Reflector.
C11_Witness ==
    /\ call = "type"
    /\ chart.gates # {}
    /\ DefinedChannels(chart.gates) = {}
    /\ ret = "Reflector"


(***************************************************************************)
(* Angles and the Wheel.  The code computes on IEEE doubles.  An angle is  *)
(* written here as u + d * 2^-59 in units of 1/192 of a degree (the width  *)
(* of one Base): u counts whole units and d is the part lost or won by     *)
(* rounding, always far below one unit, so that two angles compare by u    *)
(* first and by d next.  Every double that is a multiple of 1/64 of a      *)
(* degree has d = 0, and so have 302.0, 360.0, 180, 88.0 and the Gate,     *)
(* Line and Color segments; the Tone and Base segments are quotients that  *)
(* the division rounds upwards.                                            *)
(***************************************************************************)
UnitsPerDegree == 192

Exact(u) == [u |-> u, d |-> 0]

Degrees(n) == Exact(n * UnitsPerDegree)

NumLeq(a, b) == a.u < b.u \/ (a.u = b.u /\ a.d <= b.d)

Times(q, s) == [u |-> q * s.u, d |-> q * s.d]

Minus(a, b) == [u |-> a.u - b.u, d |-> a.d - b.d]

\* A Design Imprint taken 90 degrees before birth.
DESIGN_IMPRINT_AT_A_QUARTER == Degrees(90)

DESIGN_IMPRINT_DEGREES == Degrees(88)

GATE_WHEEL_START_DEGREES == Degrees(302)

FULL_CIRCLE == Degrees(360)

NUM_LINES == 6

NUM_COLORS == 6

NUM_TONES == 6

NUM_BASES == 5

GATE_SEGMENT == Exact(FULL_CIRCLE.u \div NUM_GATES)

LINE_SEGMENT == Exact(GATE_SEGMENT.u \div NUM_LINES)

COLOR_SEGMENT == Exact(LINE_SEGMENT.u \div NUM_COLORS)

\* The double nearest to 0.15625 / 6: 5 units and 128 * 2^-59 of a unit.
TONE_SEGMENT == [u |-> COLOR_SEGMENT.u \div NUM_TONES, d |-> 128]

\* The double nearest to TONE_SEGMENT / 5: 1 unit and 64 * 2^-59 of a unit.
BASE_SEGMENT == [u |-> TONE_SEGMENT.u \div NUM_BASES, d |-> 64]

\* Python's divmod on two non-negative doubles: the quotient is the whole
\* number of segments that fit, the remainder (an exact fmod) what is left.
divmod(a, segment) ==
    LET q0 == a.u \div segment.u
        q  == IF NumLeq(Times(q0, segment), a) THEN q0 ELSE q0 - 1
    IN  [div |-> q, mod |-> Minus(a, Times(q, segment))]

\* The distance between two neighbouring doubles around a, in rounding
\* parts: a double in [2^e, 2^(e+1)) degrees is 2^(e-52) degree away from
\* the next.
Ulp(a) ==
    LET n == (IF a.u < 0 THEN -a.u ELSE a.u) \div 3
        q == CHOOSE p \in {2^i : i \in 0..15} : p <= n /\ n < 2 * p
        below == n = q /\ ((a.u > 0 /\ a.d < 0) \/ (a.u < 0 /\ a.d > 0))
    IN  IF below THEN 192 * q ELSE 384 * q

\* The double nearest to a (the result of a floating-point addition or
\* subtraction), ties to the even one.
Rounded(a) ==
    IF a.d = 0 \/ a.u = 0 THEN a
    ELSE LET ulp  == Ulp(a)
             down == a.d \div ulp
             rest == a.d % ulp
             k    == IF 2 * rest < ulp THEN down
                     ELSE IF 2 * rest > ulp THEN down + 1
                     ELSE IF down % 2 = 0 THEN down ELSE down + 1
         IN  [u |-> a.u, d |-> k * ulp]

\* swe.degnorm: fmod(x, 360), which is exact; a result less than 1e-13
\* degree from 0 becomes 0; 360 is added to a negative one.
normalize_degrees(a) ==
    LET turns == IF a.u >= 0 THEN a.u \div FULL_CIRCLE.u ELSE -((-a.u) \div FULL_CIRCLE.u)
        q == IF a.u % FULL_CIRCLE.u # 0 THEN turns
             ELSE IF a.u > 0 /\ a.d < 0 THEN turns - 1
             ELSE IF a.u < 0 /\ a.d > 0 THEN turns + 1
             ELSE turns
        y == [u |-> a.u - q * FULL_CIRCLE.u, d |-> a.d]
    IN  IF y.u = 0 /\ y.d < 11068046 /\ y.d > -11068046 THEN Exact(0)
        ELSE IF y.u < 0 \/ (y.u = 0 /\ y.d < 0)
             THEN Rounded([y EXCEPT !.u = @ + FULL_CIRCLE.u])
             ELSE y

\* The wheel_index column of the Gates table, by Gate number.
wheel_index ==
    <<50, 18, 15, 35, 55, 41, 34, 20, 54, 58, 57, 25, 2, 52, 26, 22,
      11, 43, 1, 21, 12, 8, 19, 17, 10, 56, 16, 48, 36, 4, 32, 46,
      33, 53, 23, 9, 6, 60, 28, 38, 0, 14, 51, 49, 24, 42, 40, 44,
      3, 47, 13, 27, 29, 61, 5, 31, 45, 59, 37, 63, 62, 30, 7, 39>>

\* Gates.get_by_wheel_index: the first Gate of the table at that index.
get_by_wheel_index(index) ==
    IF index < 0 \/ index > 63
    THEN Raise("ValueError")
    ELSE IF \E gate \in Gates : wheel_index[gate] = index
         THEN Return(CHOOSE gate \in Gates :
                        /\ wheel_index[gate] = index
                        /\ \A other \in Gates :
                               wheel_index[other] = index => gate <= other)
         ELSE Raise("ValueError")

\* The table of get_by_wheel_index, computed once.
GateAtWheelIndex == [index \in 0..(NUM_GATES - 1) |-> get_by_wheel_index(index)]

\* Lines(n), Colors(n), Tones(n), Bases(n): the member numbered n of an
\* Enum of size members, ValueError when there is none.
Numbered(n, size) == IF n \in 1..size THEN Return(n) ELSE Raise("ValueError")

\* Activation._compute_data: Gate, Line, Color, Tone and Base of an angle.
compute_data(angle) ==
    LET g == divmod(angle, GATE_SEGMENT)
        l == divmod(g.mod, LINE_SEGMENT)
        c == divmod(l.mod, COLOR_SEGMENT)
        t == divmod(c.mod, TONE_SEGMENT)
        b == divmod(t.mod, BASE_SEGMENT)
        gate  == IF g.div \in DOMAIN GateAtWheelIndex
                 THEN GateAtWheelIndex[g.div] ELSE get_by_wheel_index(g.div)
        line  == Numbered(l.div + 1, NUM_LINES)
        color == Numbered(c.div + 1, NUM_COLORS)
        tone  == Numbered(t.div + 1, NUM_TONES)
        base  == Numbered(b.div + 1, NUM_BASES)
        parts == <<gate, line, color, tone, base>>
    IN  IF \E i \in 1..Len(parts) : parts[i].raised # ""
        THEN [raised |-> "ValueError", angle |-> angle,
              gate |-> 0, line |-> 0, color |-> 0, tone |-> 0, base |-> 0]
        ELSE [raised |-> "", angle |-> angle,
              gate |-> gate.value, line |-> line.value, color |-> color.value,
              tone |-> tone.value, base |-> base.value]

\* Activation._compute_position: the angle from the first Gate's start.
compute_position(longitude) ==
    normalize_degrees(Rounded(Minus(longitude, GATE_WHEEL_START_DEGREES)))

\* Activation(planet, dt), given the longitude the ephemeris reports.
Activation(longitude) == compute_data(compute_position(longitude))

(***************************************************************************)
(* Imprints.  The ephemeris is outside the program: a sky gives, for each  *)
(* body the ephemeris knows, the longitude it reports at one instant.      *)
(***************************************************************************)
Planets ==
    <<"Sun", "Earth", "Moon", "North Node", "South Node", "Mercury", "Venus",
      "Mars", "Jupiter", "Saturn", "Uranus", "Neptune", "Pluto">>

\* The swe_id column of the Planets table.
swe_id ==
    [planet \in Range(Planets) |->
        CASE planet = "Earth" -> "Sun"
          [] planet \in {"North Node", "South Node"} -> "True Node"
          [] OTHER -> planet]

get_planet_longitude(planet, sky) ==
    LET longitude == sky[swe_id[planet]]
    IN  IF planet \in {"Earth", "South Node"}
        THEN normalize_degrees(Rounded([longitude EXCEPT !.u = @ + Degrees(180).u]))
        ELSE normalize_degrees(longitude)

\* Imprint(dt): one Activation per Planet, from the sky at dt.
Imprint(sky) ==
    [activations |->
        [planet \in Range(Planets) |-> Activation(get_planet_longitude(planet, sky))]]

\* Imprint.line: the Line of the Sun's Activation.
Imprint_line(self) == self.activations["Sun"].line

GateList == [i \in Gates |-> i]

\* sorted() of a set of Gates: by Gate number.
SortedGates(S) == SelectSeq(GateList, LAMBDA gate : gate \in S)

\* Imprint.gates
Imprint_gates(self) ==
    SortedGates({self.activations[planet].gate : planet \in Range(Planets)})

\* Chart.gates without the Gates of the Design Imprint.
Chart_gates_personality_only(design, personality) ==
    SortedGates(Range(Imprint_gates(personality)))

\* Chart.gates
Chart_gates(design, personality) ==
    SortedGates(Range(Imprint_gates(design) \o Imprint_gates(personality)))

\* Chart(dt), given the skies at the Design instant and at birth.
ChartOf(design_sky, personality_sky) ==
    LET design      == Imprint(design_sky)
        personality == Imprint(personality_sky)
        gs          == Range(Chart_gates(design, personality))
    IN  [gates |-> gs, channels |-> channels(gs), centers |-> centers(channels(gs)),
         design |-> design, personality |-> personality]

\* Gates.start_angle, as a longitude.
start_angle(gate) ==
    normalize_degrees(
        [GATE_WHEEL_START_DEGREES EXCEPT !.u = @ + wheel_index[gate] * GATE_SEGMENT.u])

(***************************************************************************)
(* The skies the Charts are drawn from.  Sun, Moon and True Node take      *)
(* positions spread over the Wheel, all multiples of 1/64 of a degree; the *)
(* eight other bodies stay where they are, each at the start of a Gate     *)
(* that alone defines no Channel.  The Sun of the Design instant is 88     *)
(* degrees behind the Sun of birth, plus whole Gates of drift when the     *)
(* search for the Design instant returned without converging.              *)
(***************************************************************************)
MaxSunPositions == 6

MaxMoonPositions == 3

MaxNodePositions == 3

MaxDriftGates == 1

\* Five Gates, a Line, a Color, a Tone and four Bases further at every step:
\* the steps go through every multiple of 1/64 of a degree before repeating.
Stride == 5 * GATE_SEGMENT.u + LINE_SEGMENT.u + COLOR_SEGMENT.u + 9

Positions(n) == {Exact((k * Stride) % FULL_CIRCLE.u) : k \in 0..(n - 1)}

OtherBodies ==
    [body \in {"Mercury", "Venus", "Mars", "Jupiter", "Saturn", "Uranus",
               "Neptune", "Pluto"} |->
        CASE body = "Mercury" -> start_angle(21)
          [] body = "Venus"   -> start_angle(59)
          [] body = "Mars"    -> start_angle(25)
          [] body = "Jupiter" -> start_angle(48)
          [] body = "Saturn"  -> start_angle(63)
          [] body = "Uranus"  -> start_angle(64)
          [] body = "Neptune" -> start_angle(60)
          [] body = "Pluto"   -> start_angle(12)]

Sky(sun, moon, node) ==
    [body \in {"Sun", "Moon", "True Node"} \cup DOMAIN OtherBodies |->
        CASE body = "Sun" -> sun
          [] body = "Moon" -> moon
          [] body = "True Node" -> node
          [] OTHER -> OtherBodies[body]]

\* The Sun of the Design instant for the Sun of birth.
DesignSun(sun, drift) ==
    normalize_degrees(
        [sun EXCEPT !.u = @ - DESIGN_IMPRINT_DEGREES.u + drift * GATE_SEGMENT.u])

ChartComputed(suns, moons, nodes, drifts) ==
    \E sun \in Positions(suns), drift \in 0..drifts :
        \E dmoon \in Positions(moons), pmoon \in Positions(moons) :
            \E dnode \in Positions(nodes), pnode \in Positions(nodes) :
                chart = ChartOf(Sky(DesignSun(sun, drift), dmoon, dnode),
                                Sky(sun, pmoon, pnode))

InitImprints ==
    /\ ChartComputed(MaxSunPositions, MaxMoonPositions, MaxNodePositions, MaxDriftGates)
    /\ NothingRead

ReadGates ==
    /\ call = "none"
    /\ call' = "gates"
    /\ defs' = Chart_gates(chart.design, chart.personality)
    /\ ret' = ""
    /\ raised' = ""
    /\ UNCHANGED <<chart, args, flag>>

ReadChannels ==
    /\ call = "none"
    /\ call' = "channels"
    /\ defs' = chart.channels
    /\ ret' = ""
    /\ raised' = ""
    /\ UNCHANGED <<chart, args, flag>>

ReadCenters ==
    /\ call = "none"
    /\ call' = "centers"
    /\ defs' = chart.centers
    /\ ret' = ""
    /\ raised' = ""
    /\ UNCHANGED <<chart, args, flag>>

SpecSets == InitImprints /\ [][ReadGates \/ ReadChannels \/ ReadCenters]_vars

(***************************************************************************)
(* C12.  A Channel is in Chart.channels iff both of its Gates are in       *)
(* Chart.gates; a Center is in Chart.centers iff it is an end of at least  *)
(* one Defined Channel; Chart.gates is the union, without duplicates, of   *)
(* the Gates of the Design and of the Personality Imprint.                 *)
(***************************************************************************)
ImprintGateSet(imprint) == {imprint.activations[planet].gate : planet \in Range(Planets)}

NoDuplicates(s) == \A i, j \in 1..Len(s) : s[i] = s[j] => i = j

C12_SetsFollowGates ==
    LET both == ImprintGateSet(chart.design) \cup ImprintGateSet(chart.personality)
    IN  /\ call = "gates" => NoDuplicates(defs) /\ Range(defs) = both
        /\ call = "channels" =>
               /\ NoDuplicates(defs)
               /\ \A id \in ChannelIds : id \in Range(defs) <=> GatesOf[id] \subseteq both
        /\ call = "centers" =>
               /\ NoDuplicates(defs)
               /\ \A center \in Centers :
                      center \in Range(defs) <=>
                          \E id \in ChannelIds :
                              GatesOf[id] \subseteq both /\ center \in CentersOf[id]

\* C12: a Channel is Defined by one Gate of each Imprint, while both Imprints
\* share a Gate that Chart.gates holds once.
C12_Witness ==
    /\ call = "channels"
    /\ ImprintGateSet(chart.design) \cap ImprintGateSet(chart.personality) # {}
    /\ \E id \in Range(defs) :
           /\ ~ (GatesOf[id] \subseteq ImprintGateSet(chart.design))
           /\ ~ (GatesOf[id] \subseteq ImprintGateSet(chart.personality))

(***************************************************************************)
(* Profiles.  A member's key is its name in the table (_1_3 is <<1, 3>>);  *)
(* its fields are the values written beside the name.                      *)
(***************************************************************************)
Lines == 1..NUM_LINES

Member(key, personality_line, design_line, geometry, destiny) ==
    [key |-> key, personality_line |-> personality_line, design_line |-> design_line,
     geometry |-> geometry, destiny |-> destiny]

Profiles ==
    << Member(<<1, 3>>, 1, 3, "Right Angle",   "Personal"),
       Member(<<1, 4>>, 1, 4, "Right Angle",   "Personal"),
       Member(<<2, 4>>, 2, 4, "Right Angle",   "Personal"),
       Member(<<2, 5>>, 2, 5, "Right Angle",   "Personal"),
       Member(<<3, 5>>, 3, 5, "Right Angle",   "Personal"),
       Member(<<3, 6>>, 3, 6, "Right Angle",   "Personal"),
       Member(<<4, 1>>, 4, 1, "Juxtaposition", "Fixed Fate"),
       Member(<<4, 6>>, 4, 6, "Right Angle",   "Transpersonal"),
       Member(<<5, 1>>, 5, 1, "Left Angle",    "Transpersonal"),
       Member(<<5, 2>>, 5, 2, "Left Angle",    "Transpersonal"),
       Member(<<6, 2>>, 6, 2, "Left Angle",    "Transpersonal"),
       Member(<<6, 3>>, 6, 3, "Left Angle",    "Transpersonal") >>

\* cls[key] of an Enum: the member of that name, KeyError when there is none.
Lookup(table, key) ==
    IF \E i \in 1..Len(table) : table[i].key = key
    THEN Return(table[CHOOSE i \in 1..Len(table) : table[i].key = key])
    ELSE Raise("KeyError")

\* Profiles.get with the two Lines in the other order in the key.
Profiles_get_design_first(personality, design) ==
    LET found == Lookup(Profiles, <<design, personality>>)
    IN  IF found.raised = "KeyError" THEN Raise("ValueError") ELSE found

\* Profiles.get
Profiles_get(personality, design) ==
    LET found == Lookup(Profiles, <<personality, design>>)
    IN  IF found.raised = "KeyError" THEN Raise("ValueError") ELSE found

\* Chart.profile
profile(self) == Profiles_get(Imprint_line(self.personality), Imprint_line(self.design))

\* Chart.geometry
geometry(self) ==
    LET p == profile(self)
    IN  IF p.raised # "" THEN p ELSE Return(p.value.geometry)


(***************************************************************************)
(* Crosses.  As for Profiles, a member's key is its name in the table      *)
(* (_01_02_04_49_L) and its fields are the values written beside it.       *)
(***************************************************************************)
Cross(key, ps, pe, ds, de, geo) ==
    [key |-> key, ps |-> ps, pe |-> pe, ds |-> ds, de |-> de, geometry |-> geo]

Crosses ==
    <<
      Cross(<<1, 2, 4, 49, "L">>, 1, 2, 4, 49, "Left Angle"),
      Cross(<<1, 2, 4, 49, "J">>, 1, 2, 4, 49, "Juxtaposition"),
      Cross(<<1, 2, 7, 13, "R">>, 1, 2, 7, 13, "Right Angle"),
      Cross(<<2, 1, 13, 7, "R">>, 2, 1, 13, 7, "Right Angle"),
      Cross(<<2, 1, 49, 4, "L">>, 2, 1, 49, 4, "Left Angle"),
      Cross(<<2, 1, 49, 4, "J">>, 2, 1, 49, 4, "Juxtaposition"),
      Cross(<<3, 50, 41, 31, "L">>, 3, 50, 41, 31, "Left Angle"),
      Cross(<<3, 50, 41, 31, "J">>, 3, 50, 41, 31, "Juxtaposition"),
      Cross(<<3, 50, 60, 56, "R">>, 3, 50, 60, 56, "Right Angle"),
      Cross(<<4, 49, 8, 14, "L">>, 4, 49, 8, 14, "Left Angle"),
      Cross(<<4, 49, 8, 14, "J">>, 4, 49, 8, 14, "Juxtaposition"),
      Cross(<<4, 49, 23, 43, "R">>, 4, 49, 23, 43, "Right Angle"),
      Cross(<<5, 35, 47, 22, "L">>, 5, 35, 47, 22, "Left Angle"),
      Cross(<<5, 35, 47, 22, "J">>, 5, 35, 47, 22, "Juxtaposition"),
      Cross(<<5, 35, 64, 63, "R">>, 5, 35, 64, 63, "Right Angle"),
      Cross(<<6, 36, 12, 11, "R">>, 6, 36, 12, 11, "Right Angle"),
      Cross(<<6, 36, 15, 10, "L">>, 6, 36, 15, 10, "Left Angle"),
      Cross(<<6, 36, 15, 10, "J">>, 6, 36, 15, 10, "Juxtaposition"),
      Cross(<<7, 13, 2, 1, "R">>, 7, 13, 2, 1, "Right Angle"),
      Cross(<<7, 13, 23, 43, "L">>, 7, 13, 23, 43, "Left Angle"),
      Cross(<<7, 13, 23, 43, "J">>, 7, 13, 23, 43, "Juxtaposition"),
      Cross(<<8, 14, 30, 29, "R">>, 8, 14, 30, 29, "Right Angle"),
      Cross(<<8, 14, 55, 59, "L">>, 8, 14, 55, 59, "Left Angle"),
      Cross(<<8, 14, 55, 59, "J">>, 8, 14, 55, 59, "Juxtaposition"),
      Cross(<<9, 16, 40, 37, "R">>, 9, 16, 40, 37, "Right Angle"),
      Cross(<<9, 16, 64, 63, "L">>, 9, 16, 64, 63, "Left Angle"),
      Cross(<<9, 16, 64, 63, "J">>, 9, 16, 64, 63, "Juxtaposition"),
      Cross(<<10, 15, 18, 17, "L">>, 10, 15, 18, 17, "Left Angle"),
      Cross(<<10, 15, 18, 17, "J">>, 10, 15, 18, 17, "Juxtaposition"),
      Cross(<<10, 15, 46, 25, "R">>, 10, 15, 46, 25, "Right Angle"),
      Cross(<<11, 12, 6, 36, "R">>, 11, 12, 6, 36, "Right Angle"),
      Cross(<<11, 12, 46, 25, "L">>, 11, 12, 46, 25, "Left Angle"),
      Cross(<<11, 12, 46, 25, "J">>, 11, 12, 46, 25, "Juxtaposition"),
      Cross(<<12, 11, 25, 46, "L">>, 12, 11, 25, 46, "Left Angle"),
      Cross(<<12, 11, 25, 46, "J">>, 12, 11, 25, 46, "Juxtaposition"),
      Cross(<<12, 11, 36, 6, "R">>, 12, 11, 36, 6, "Right Angle"),
      Cross(<<13, 7, 1, 2, "R">>, 13, 7, 1, 2, "Right Angle"),
      Cross(<<13, 7, 43, 23, "L">>, 13, 7, 43, 23, "Left Angle"),
      Cross(<<13, 7, 43, 23, "J">>, 13, 7, 43, 23, "Juxtaposition"),
      Cross(<<14, 8, 29, 30, "R">>, 14, 8, 29, 30, "Right Angle"),
      Cross(<<14, 8, 59, 55, "L">>, 14, 8, 59, 55, "Left Angle"),
      Cross(<<14, 8, 59, 55, "J">>, 14, 8, 59, 55, "Juxtaposition"),
      Cross(<<15, 10, 17, 18, "L">>, 15, 10, 17, 18, "Left Angle"),
      Cross(<<15, 10, 17, 18, "J">>, 15, 10, 17, 18, "Juxtaposition"),
      Cross(<<15, 10, 25, 46, "R">>, 15, 10, 25, 46, "Right Angle"),
      Cross(<<16, 9, 37, 40, "R">>, 16, 9, 37, 40, "Right Angle"),
      Cross(<<16, 9, 63, 64, "L">>, 16, 9, 63, 64, "Left Angle"),
      Cross(<<16, 9, 63, 64, "J">>, 16, 9, 63, 64, "Juxtaposition"),
      Cross(<<17, 18, 38, 39, "L">>, 17, 18, 38, 39, "Left Angle"),
      Cross(<<17, 18, 38, 39, "J">>, 17, 18, 38, 39, "Juxtaposition"),
      Cross(<<17, 18, 58, 52, "R">>, 17, 18, 58, 52, "Right Angle"),
      Cross(<<18, 17, 39, 38, "L">>, 18, 17, 39, 38, "Left Angle"),
      Cross(<<18, 17, 39, 38, "J">>, 18, 17, 39, 38, "Juxtaposition"),
      Cross(<<18, 17, 52, 58, "R">>, 18, 17, 52, 58, "Right Angle"),
      Cross(<<19, 33, 1, 2, "L">>, 19, 33, 1, 2, "Left Angle"),
      Cross(<<19, 33, 1, 2, "J">>, 19, 33, 1, 2, "Juxtaposition"),
      Cross(<<19, 33, 44, 24, "R">>, 19, 33, 44, 24, "Right Angle"),
      Cross(<<20, 34, 37, 40, "L">>, 20, 34, 37, 40, "Left Angle"),
      Cross(<<20, 34, 37, 40, "J">>, 20, 34, 37, 40, "Juxtaposition"),
      Cross(<<20, 34, 55, 59, "R">>, 20, 34, 55, 59, "Right Angle"),
      Cross(<<21, 48, 38, 39, "R">>, 21, 48, 38, 39, "Right Angle"),
      Cross(<<21, 48, 54, 53, "L">>, 21, 48, 54, 53, "Left Angle"),
      Cross(<<21, 48, 54, 53, "J">>, 21, 48, 54, 53, "Juxtaposition"),
      Cross(<<22, 47, 11, 12, "L">>, 22, 47, 11, 12, "Left Angle"),
      Cross(<<22, 47, 11, 12, "J">>, 22, 47, 11, 12, "Juxtaposition"),
      Cross(<<22, 47, 26, 45, "R">>, 22, 47, 26, 45, "Right Angle"),
      Cross(<<23, 43, 30, 29, "L">>, 23, 43, 30, 29, "Left Angle"),
      Cross(<<23, 43, 30, 29, "J">>, 23, 43, 30, 29, "Juxtaposition"),
      Cross(<<23, 43, 49, 4, "R">>, 23, 43, 49, 4, "Right Angle"),
      Cross(<<24, 44, 13, 7, "L">>, 24, 44, 13, 7, "Left Angle"),
      Cross(<<24, 44, 13, 7, "J">>, 24, 44, 13, 7, "Juxtaposition"),
      Cross(<<24, 44, 19, 33, "R">>, 24, 44, 19, 33, "Right Angle"),
      Cross(<<25, 46, 10, 15, "R">>, 25, 46, 10, 15, "Right Angle"),
      Cross(<<25, 46, 58, 52, "L">>, 25, 46, 58, 52, "Left Angle"),
      Cross(<<25, 46, 58, 52, "J">>, 25, 46, 58, 52, "Juxtaposition"),
      Cross(<<26, 45, 6, 36, "L">>, 26, 45, 6, 36, "Left Angle"),
      Cross(<<26, 45, 6, 36, "J">>, 26, 45, 6, 36, "Juxtaposition"),
      Cross(<<26, 45, 47, 22, "R">>, 26, 45, 47, 22, "Right Angle"),
      Cross(<<27, 28, 19, 33, "L">>, 27, 28, 19, 33, "Left Angle"),
      Cross(<<27, 28, 19, 33, "J">>, 27, 28, 19, 33, "Juxtaposition"),
      Cross(<<27, 28, 41, 31, "R">>, 27, 28, 41, 31, "Right Angle"),
      Cross(<<28, 27, 31, 41, "R">>, 28, 27, 31, 41, "Right Angle"),
      Cross(<<28, 27, 33, 19, "L">>, 28, 27, 33, 19, "Left Angle"),
      Cross(<<28, 27, 33, 19, "J">>, 28, 27, 33, 19, "Juxtaposition"),
      Cross(<<29, 30, 8, 14, "R">>, 29, 30, 8, 14, "Right Angle"),
      Cross(<<29, 30, 20, 34, "L">>, 29, 30, 20, 34, "Left Angle"),
      Cross(<<29, 30, 20, 34, "J">>, 29, 30, 20, 34, "Juxtaposition"),
      Cross(<<30, 29, 14, 8, "R">>, 30, 29, 14, 8, "Right Angle"),
      Cross(<<30, 29, 34, 20, "L">>, 30, 29, 34, 20, "Left Angle"),
      Cross(<<30, 29, 34, 20, "J">>, 30, 29, 34, 20, "Juxtaposition"),
      Cross(<<31, 41, 24, 44, "L">>, 31, 41, 24, 44, "Left Angle"),
      Cross(<<31, 41, 24, 44, "J">>, 31, 41, 24, 44, "Juxtaposition"),
      Cross(<<31, 41, 27, 28, "R">>, 31, 41, 27, 28, "Right Angle"),
      Cross(<<32, 42, 56, 60, "L">>, 32, 42, 56, 60, "Left Angle"),
      Cross(<<32, 42, 56, 60, "J">>, 32, 42, 56, 60, "Juxtaposition"),
      Cross(<<32, 42, 62, 61, "R">>, 32, 42, 62, 61, "Right Angle"),
      Cross(<<33, 19, 2, 1, "L">>, 33, 19, 2, 1, "Left Angle"),
      Cross(<<33, 19, 2, 1, "J">>, 33, 19, 2, 1, "Juxtaposition"),
      Cross(<<33, 19, 24, 44, "R">>, 33, 19, 24, 44, "Right Angle"),
      Cross(<<34, 20, 40, 37, "L">>, 34, 20, 40, 37, "Left Angle"),
      Cross(<<34, 20, 40, 37, "J">>, 34, 20, 40, 37, "Juxtaposition"),
      Cross(<<34, 20, 59, 55, "R">>, 34, 20, 59, 55, "Right Angle"),
      Cross(<<35, 5, 22, 47, "L">>, 35, 5, 22, 47, "Left Angle"),
      Cross(<<35, 5, 22, 47, "J">>, 35, 5, 22, 47, "Juxtaposition"),
      Cross(<<35, 5, 63, 64, "R">>, 35, 5, 63, 64, "Right Angle"),
      Cross(<<36, 6, 10, 15, "L">>, 36, 6, 10, 15, "Left Angle"),
      Cross(<<36, 6, 10, 15, "J">>, 36, 6, 10, 15, "Juxtaposition"),
      Cross(<<36, 6, 11, 12, "R">>, 36, 6, 11, 12, "Right Angle"),
      Cross(<<37, 40, 5, 35, "L">>, 37, 40, 5, 35, "Left Angle"),
      Cross(<<37, 40, 5, 35, "J">>, 37, 40, 5, 35, "Juxtaposition"),
      Cross(<<37, 40, 9, 16, "R">>, 37, 40, 9, 16, "Right Angle"),
      Cross(<<38, 39, 48, 21, "R">>, 38, 39, 48, 21, "Right Angle"),
      Cross(<<38, 39, 57, 51, "L">>, 38, 39, 57, 51, "Left Angle"),
      Cross(<<38, 39, 57, 51, "J">>, 38, 39, 57, 51, "Juxtaposition"),
      Cross(<<39, 38, 21, 48, "R">>, 39, 38, 21, 48, "Right Angle"),
      Cross(<<39, 38, 51, 57, "L">>, 39, 38, 51, 57, "Left Angle"),
      Cross(<<39, 38, 51, 57, "J">>, 39, 38, 51, 57, "Juxtaposition"),
      Cross(<<40, 37, 16, 9, "R">>, 40, 37, 16, 9, "Right Angle"),
      Cross(<<40, 37, 35, 5, "L">>, 40, 37, 35, 5, "Left Angle"),
      Cross(<<40, 37, 35, 5, "J">>, 40, 37, 35, 5, "Juxtaposition"),
      Cross(<<41, 31, 28, 27, "R">>, 41, 31, 28, 27, "Right Angle"),
      Cross(<<41, 31, 44, 24, "L">>, 41, 31, 44, 24, "Left Angle"),
      Cross(<<41, 31, 44, 24, "J">>, 41, 31, 44, 24, "Juxtaposition"),
      Cross(<<42, 32, 60, 56, "L">>, 42, 32, 60, 56, "Left Angle"),
      Cross(<<42, 32, 60, 56, "J">>, 42, 32, 60, 56, "Juxtaposition"),
      Cross(<<42, 32, 61, 62, "R">>, 42, 32, 61, 62, "Right Angle"),
      Cross(<<43, 23, 4, 49, "R">>, 43, 23, 4, 49, "Right Angle"),
      Cross(<<43, 23, 29, 30, "L">>, 43, 23, 29, 30, "Left Angle"),
      Cross(<<43, 23, 29, 30, "J">>, 43, 23, 29, 30, "Juxtaposition"),
      Cross(<<44, 24, 7, 13, "L">>, 44, 24, 7, 13, "Left Angle"),
      Cross(<<44, 24, 7, 13, "J">>, 44, 24, 7, 13, "Juxtaposition"),
      Cross(<<44, 24, 33, 19, "R">>, 44, 24, 33, 19, "Right Angle"),
      Cross(<<45, 26, 22, 47, "R">>, 45, 26, 22, 47, "Right Angle"),
      Cross(<<45, 26, 36, 6, "L">>, 45, 26, 36, 6, "Left Angle"),
      Cross(<<45, 26, 36, 6, "J">>, 45, 26, 36, 6, "Juxtaposition"),
      Cross(<<46, 25, 15, 10, "R">>, 46, 25, 15, 10, "Right Angle"),
      Cross(<<46, 25, 52, 58, "L">>, 46, 25, 52, 58, "Left Angle"),
      Cross(<<46, 25, 52, 58, "J">>, 46, 25, 52, 58, "Juxtaposition"),
      Cross(<<47, 22, 12, 11, "L">>, 47, 22, 12, 11, "Left Angle"),
      Cross(<<47, 22, 12, 11, "J">>, 47, 22, 12, 11, "Juxtaposition"),
      Cross(<<47, 22, 45, 26, "R">>, 47, 22, 45, 26, "Right Angle"),
      Cross(<<48, 21, 39, 38, "R">>, 48, 21, 39, 38, "Right Angle"),
      Cross(<<48, 21, 53, 54, "L">>, 48, 21, 53, 54, "Left Angle"),
      Cross(<<48, 21, 53, 54, "J">>, 48, 21, 53, 54, "Juxtaposition"),
      Cross(<<49, 4, 14, 8, "L">>, 49, 4, 14, 8, "Left Angle"),
      Cross(<<49, 4, 14, 8, "J">>, 49, 4, 14, 8, "Juxtaposition"),
      Cross(<<49, 4, 43, 23, "R">>, 49, 4, 43, 23, "Right Angle"),
      Cross(<<50, 3, 31, 41, "L">>, 50, 3, 31, 41, "Left Angle"),
      Cross(<<50, 3, 31, 41, "J">>, 50, 3, 31, 41, "Juxtaposition"),
      Cross(<<50, 3, 56, 60, "R">>, 50, 3, 56, 60, "Right Angle"),
      Cross(<<51, 57, 54, 53, "R">>, 51, 57, 54, 53, "Right Angle"),
      Cross(<<51, 57, 61, 62, "L">>, 51, 57, 61, 62, "Left Angle"),
      Cross(<<51, 57, 61, 62, "J">>, 51, 57, 61, 62, "Juxtaposition"),
      Cross(<<52, 58, 17, 18, "R">>, 52, 58, 17, 18, "Right Angle"),
      Cross(<<52, 58, 21, 48, "L">>, 52, 58, 21, 48, "Left Angle"),
      Cross(<<52, 58, 21, 48, "J">>, 52, 58, 21, 48, "Juxtaposition"),
      Cross(<<53, 54, 42, 32, "L">>, 53, 54, 42, 32, "Left Angle"),
      Cross(<<53, 54, 42, 32, "J">>, 53, 54, 42, 32, "Juxtaposition"),
      Cross(<<53, 54, 51, 57, "R">>, 53, 54, 51, 57, "Right Angle"),
      Cross(<<54, 53, 32, 42, "L">>, 54, 53, 32, 42, "Left Angle"),
      Cross(<<54, 53, 32, 42, "J">>, 54, 53, 32, 42, "Juxtaposition"),
      Cross(<<54, 53, 57, 51, "R">>, 54, 53, 57, 51, "Right Angle"),
      Cross(<<55, 59, 9, 16, "L">>, 55, 59, 9, 16, "Left Angle"),
      Cross(<<55, 59, 9, 16, "J">>, 55, 59, 9, 16, "Juxtaposition"),
      Cross(<<55, 59, 34, 20, "R">>, 55, 59, 34, 20, "Right Angle"),
      Cross(<<56, 60, 3, 50, "R">>, 56, 60, 3, 50, "Right Angle"),
      Cross(<<56, 60, 27, 28, "L">>, 56, 60, 27, 28, "Left Angle"),
      Cross(<<56, 60, 27, 28, "J">>, 56, 60, 27, 28, "Juxtaposition"),
      Cross(<<57, 51, 53, 54, "R">>, 57, 51, 53, 54, "Right Angle"),
      Cross(<<57, 51, 62, 61, "L">>, 57, 51, 62, 61, "Left Angle"),
      Cross(<<57, 51, 62, 61, "J">>, 57, 51, 62, 61, "Juxtaposition"),
      Cross(<<58, 52, 18, 17, "R">>, 58, 52, 18, 17, "Right Angle"),
      Cross(<<58, 52, 48, 21, "L">>, 58, 52, 48, 21, "Left Angle"),
      Cross(<<58, 52, 48, 21, "J">>, 58, 52, 48, 21, "Juxtaposition"),
      Cross(<<59, 55, 16, 9, "L">>, 59, 55, 16, 9, "Left Angle"),
      Cross(<<59, 55, 16, 9, "J">>, 59, 55, 16, 9, "Juxtaposition"),
      Cross(<<59, 55, 20, 34, "R">>, 59, 55, 20, 34, "Right Angle"),
      Cross(<<60, 56, 28, 27, "L">>, 60, 56, 28, 27, "Left Angle"),
      Cross(<<60, 56, 28, 27, "J">>, 60, 56, 28, 27, "Juxtaposition"),
      Cross(<<60, 56, 50, 3, "R">>, 60, 56, 50, 3, "Right Angle"),
      Cross(<<61, 62, 32, 42, "R">>, 61, 62, 32, 42, "Right Angle"),
      Cross(<<61, 62, 50, 3, "L">>, 61, 62, 50, 3, "Left Angle"),
      Cross(<<61, 62, 50, 3, "J">>, 61, 62, 50, 3, "Juxtaposition"),
      Cross(<<62, 61, 3, 50, "L">>, 62, 61, 3, 50, "Left Angle"),
      Cross(<<62, 61, 3, 50, "J">>, 62, 61, 3, 50, "Juxtaposition"),
      Cross(<<62, 61, 42, 32, "R">>, 62, 61, 42, 32, "Right Angle"),
      Cross(<<63, 64, 5, 35, "R">>, 63, 64, 5, 35, "Right Angle"),
      Cross(<<63, 64, 26, 45, "L">>, 63, 64, 26, 45, "Left Angle"),
      Cross(<<63, 64, 26, 45, "J">>, 63, 64, 26, 45, "Juxtaposition"),
      Cross(<<64, 63, 35, 5, "R">>, 64, 63, 35, 5, "Right Angle"),
      Cross(<<64, 63, 45, 26, "L">>, 64, 63, 45, 26, "Left Angle"),
      Cross(<<64, 63, 45, 26, "J">>, 64, 63, 45, 26, "Juxtaposition") >>

\* Geometries.letter: the first letter of the name.
letter(geo) ==
    CASE geo = "Left Angle" -> "L"
      [] geo = "Juxtaposition" -> "J"
      [] geo = "Right Angle" -> "R"

\* Crosses.get with the Design Earth before the Design Sun in the key.
Crosses_get_earth_first(ps, pe, ds, de, geo) ==
    LET found == Lookup(Crosses, <<ps, pe, de, ds, letter(geo)>>)
    IN  IF found.raised = "KeyError" THEN Raise("ValueError") ELSE found

\* Crosses.get
Crosses_get(ps, pe, ds, de, geo) ==
    LET found == Lookup(Crosses, <<ps, pe, ds, de, letter(geo)>>)
    IN  IF found.raised = "KeyError" THEN Raise("ValueError") ELSE found

\* Chart.cross
cross(self) ==
    LET geo == geometry(self)
    IN  IF geo.raised # ""
        THEN geo
        ELSE Crosses_get(self.personality.activations["Sun"].gate,
                         self.personality.activations["Earth"].gate,
                         self.design.activations["Sun"].gate,
                         self.design.activations["Earth"].gate,
                         geo.value)

ReadCross ==
    /\ call = "none"
    /\ args = NoArgs
    /\ call' = "cross"
    /\ \E r \in {cross(chart)} :
          /\ ret' = r.value
          /\ raised' = r.raised
    /\ UNCHANGED <<chart, args, flag, defs>>
(***************************************************************************)
(* Profiles.get called on two Lines, and Chart.profile and Chart.cross     *)
(* read on the Chart of every birth Sun that is a multiple of 1/64 of a    *)
(* degree, the Design Sun 88 degrees behind it, and on Charts whose Design *)
(* Sun has drifted.                                                        *)
(***************************************************************************)
InitProfilesGet ==
    /\ chart = Chart({})
    /\ call = "none"
    /\ \E personality \in Lines, design \in Lines : args = [personality |-> personality, design |-> design]
    /\ ret = ""
    /\ flag = FALSE
    /\ defs = <<>>
    /\ raised = ""

GridPositions == FULL_CIRCLE.u \div 3

InitSunAnywhere ==
    /\ ChartComputed(GridPositions, 1, 1, 0)
    /\ NothingRead

CallProfilesGet ==
    /\ call = "none"
    /\ args # NoArgs
    /\ call' = "Profiles.get"
    /\ \E r \in {Profiles_get(args.personality, args.design)} :
          /\ ret' = r.value
          /\ raised' = r.raised
    /\ UNCHANGED <<chart, args, flag, defs>>

ReadProfile ==
    /\ call = "none"
    /\ args = NoArgs
    /\ call' = "profile"
    /\ \E r \in {profile(chart)} :
          /\ ret' = r.value
          /\ raised' = r.raised
    /\ UNCHANGED <<chart, args, flag, defs>>

SpecProfile ==
    /\ \/ InitProfilesGet
       \/ InitSunAnywhere
       \/ ChartComputed(MaxSunPositions, 1, 1, MaxDriftGates) /\ NothingRead
    /\ [][CallProfilesGet \/ ReadProfile \/ ReadCross]_vars

(***************************************************************************)
(* C16.  Profiles.get(personality, design) returns the Profile of these    *)
(* two Lines for exactly the twelve pairs 1/3, 1/4, 2/4, 2/5, 3/5, 3/6,    *)
(* 4/6, 4/1, 5/1, 5/2, 6/2, 6/3 and raises ValueError for the other 24.    *)
(***************************************************************************)
CatalogPairs ==
    {<<1, 3>>, <<1, 4>>, <<2, 4>>, <<2, 5>>, <<3, 5>>, <<3, 6>>,
     <<4, 6>>, <<4, 1>>, <<5, 1>>, <<5, 2>>, <<6, 2>>, <<6, 3>>}

C16_ProfilesGet ==
    call = "Profiles.get" =>
        IF <<args.personality, args.design>> \in CatalogPairs
        THEN /\ raised = ""
             /\ ret.personality_line = args.personality
             /\ ret.design_line = args.design
        ELSE raised = "ValueError"

\* C16: a pair of the catalog whose reversal is not in the catalog was
\* looked up and found.
C16_Witness ==
    /\ call = "Profiles.get"
    /\ args = [personality |-> 4, design |-> 6]
    /\ raised = ""
    /\ ret.key = <<4, 6>>

(***************************************************************************)
(* C17.  Wherever the Personality Sun stands on the Wheel, when the Design *)
(* Sun is exactly 88 degrees earlier the pair (Personality Line, Design    *)
(* Line) is one of the twelve Profiles: Chart.profile never raises.        *)
(***************************************************************************)
C17_ProfileAlwaysResolves ==
    (/\ call = "profile"
     /\ chart.design.activations["Sun"].angle =
            normalize_degrees(Minus(chart.personality.activations["Sun"].angle,
                                    DESIGN_IMPRINT_DEGREES))) =>
        /\ raised = ""
        /\ <<chart.personality.activations["Sun"].line,
             chart.design.activations["Sun"].line>> \in CatalogPairs
        /\ ret.key = <<chart.personality.activations["Sun"].line,
                       chart.design.activations["Sun"].line>>

\* C17: the Personality Sun on the last part of Line 4, where the Design
\* Sun has already left Line 6 of one Gate for Line 1 of the next.
C17_Witness ==
    /\ call = "profile"
    /\ chart.design.activations["Sun"].angle =
           normalize_degrees(Minus(chart.personality.activations["Sun"].angle,
                                   DESIGN_IMPRINT_DEGREES))
    /\ raised = ""
    /\ ret.key = <<4, 1>>

(***************************************************************************)
(* C18.  Chart.cross is the entry of the Crosses catalog whose Personality *)
(* Sun, Personality Earth, Design Sun and Design Earth Gates are the       *)
(* Chart's and whose Geometry is the Geometry of the Chart's Profile; when *)
(* the catalog has no such entry, ValueError is raised.                    *)
(***************************************************************************)
C18_CrossIsTheCatalogEntry ==
    call = "cross" =>
        LET lines == <<chart.personality.activations["Sun"].line,
                       chart.design.activations["Sun"].line>>
            geos  == {Profiles[i].geometry : i \in {j \in 1..Len(Profiles) :
                         <<Profiles[j].personality_line, Profiles[j].design_line>> = lines}}
            fits(entry) ==
                /\ entry.ps = chart.personality.activations["Sun"].gate
                /\ entry.pe = chart.personality.activations["Earth"].gate
                /\ entry.ds = chart.design.activations["Sun"].gate
                /\ entry.de = chart.design.activations["Earth"].gate
                /\ entry.geometry \in geos
        IN  IF \E i \in 1..Len(Crosses) : fits(Crosses[i])
            THEN raised = "" /\ fits(ret)
            ELSE raised = "ValueError"

\* C18: the Cross of a 4/1 Profile is found, a Juxtaposition Cross whose
\* Design Sun Gate differs from the Right Angle Cross of the same Gate.
C18_Witness ==
    /\ call = "cross"
    /\ raised = ""
    /\ ret.geometry = "Juxtaposition"
    /\ chart.design.activations["Sun"].line = 1

(***************************************************************************)
(* The states of the Gates of a Chart.                                     *)
(***************************************************************************)

\* gate.harmonic_gate: class Gates defines no such field or property (only
\* Channels has a method harmonic_gate), so the read ends in
\* SuperEnum.__getattr__, which raises.
Gates_harmonic_gate(gate) == Raise("AttributeError")

\* Chart.harmonic_gates
harmonic_gates(self) ==
    IF \E gate \in self.gates : Gates_harmonic_gate(gate).raised # ""
    THEN Raise("AttributeError")
    ELSE Return(SortedGates({Gates_harmonic_gate(gate).value : gate \in self.gates}))

\* Chart.hanging_gates: the Harmonic Gate is read of the Activated Gates
\* that are in a Defined Center.
hanging_gates(self) ==
    LET in_defined == {gate \in self.gates : GateCenter[gate] \in Range(self.centers)}
    IN  IF \E gate \in in_defined : Gates_harmonic_gate(gate).raised # ""
        THEN Raise("AttributeError")
        ELSE Return(SortedGates({gate \in in_defined :
                                    Gates_harmonic_gate(gate).value \notin self.gates}))

\* Chart.dormant_gates
dormant_gates(self) ==
    SortedGates({gate \in self.gates : GateCenter[gate] \notin Range(self.centers)})

\* sorted() of a list of Gates, which may hold a Gate several times.
RECURSIVE SortedList(_, _)
SortedList(list, n) ==
    IF n = 0
    THEN <<>>
    ELSE SortedList(list, n - 1) \o SelectSeq(list, LAMBDA gate : gate = n)

\* Chart.bridging_gates: of every Channel whose two Gates are Activated the
\* second Gate is appended; the elif branch repeats the same condition and
\* is never taken.
bridging_gates(self) ==
    LET appended(id) ==
            LET gate1 == Channels[id].gates[1]
                gate2 == Channels[id].gates[2]
                gate1_is_activated == gate1 \in self.gates
                gate2_is_activated == gate2 \in self.gates
            IN  IF gate1_is_activated /\ gate2_is_activated THEN <<gate2>>
                ELSE IF gate2_is_activated /\ gate1_is_activated THEN <<gate1>>
                ELSE <<>>
        RECURSIVE bridging(_)
        bridging(n) == IF n = 0 THEN <<>> ELSE bridging(n - 1) \o appended(ChannelList[n])
    IN  SortedList(bridging(Len(ChannelList)), NUM_GATES)

(***************************************************************************)
(* Export.  Chart.PROPS names the attributes that to_dict, to_light_model  *)
(* and to_model read with getattr; ChartAttributes are the names that      *)
(* class Chart defines or that __init__ sets.                              *)
(***************************************************************************)
PROPS ==
    <<"authority", "centers", "channel_types", "channels", "circuit_groups", "circuits",
      "creative_channels", "geometry", "cross", "definitions", "definition_type", "destiny",
      "gates", "not_self_theme", "profile", "signature", "strategy", "type",
      "variable_activations", "variable_orientations", "variables",
      "determination", "cognition", "environment", "perspective", "motivation", "sense">>

ChartAttributes ==
    {"design", "personality", "short_description", "authority", "centers", "channel_types",
     "channels", "circuit_groups", "circuits", "creative_channels", "cross", "definitions",
     "definition_type", "destiny", "gates", "harmonic_gates", "channeled_gates",
     "hanging_gates", "dormant_gates", "bridging_gates", "harmonic_hanging_gates",
     "harmonic_dormant_gates", "geometry", "not_self_theme", "profile", "signature",
     "strategy", "type", "variable_activations", "variable_orientations", "determination",
     "cognition", "environment", "perspective", "motivation", "sense", "line_counts",
     "num_centers", "num_channels", "num_definitions", "num_gates"}

\* The fields of the dataclass ChartLightModel.
ChartLightModel ==
    {"authority", "centers", "channel_types", "channels", "circuit_groups", "circuits",
     "creative_channels", "cross", "definition_type", "definitions", "destiny", "gates",
     "geometry", "not_self_theme", "profile", "signature", "strategy", "type", "variables",
     "variable_activations", "determination", "cognition", "environment", "perspective",
     "motivation", "sense"}

\* getattr(self, prop): the exception it raises, "" when it returns.
getattr(self, prop, seed) ==
    CASE prop \notin ChartAttributes -> "AttributeError"
      [] prop \in {"type", "not_self_theme", "signature", "strategy"} ->
             type(self, seed).raised
      [] prop \in {"profile", "geometry", "destiny"} -> profile(self).raised
      [] prop = "cross" -> cross(self).raised
      [] prop = "definition_type" -> definition_type(self, seed).raised
      [] prop = "harmonic_gates" -> harmonic_gates(self).raised
      [] prop \in {"hanging_gates", "harmonic_hanging_gates"} -> hanging_gates(self).raised
      [] prop = "harmonic_dormant_gates" ->
             IF dormant_gates(self) = <<>> THEN "" ELSE "AttributeError"
      [] OTHER -> ""

\* {name: getattr(self, name) for name in names}: the dict's keys, or the
\* exception of the first name that raises.  errs[i] is what reading
\* names[i] raises.
ReadAll(self, names, seed) ==
    CHOOSE r \in
        {IF \A i \in DOMAIN errs : errs[i] = ""
         THEN Return(Range(names))
         ELSE Raise(errs[CHOOSE i \in DOMAIN errs :
                        /\ errs[i] # ""
                        /\ \A j \in 1..(i - 1) : errs[j] = ""])
           : errs \in {[i \in 1..Len(names) |-> getattr(self, names[i], seed)]}} : TRUE

\* Chart.to_dict
to_dict(self, seed) ==
    CHOOSE r \in
        {IF props.raised # "" THEN props
         ELSE Return({"personality", "design"} \cup props.value)
           : props \in {ReadAll(self, PROPS, seed)}} : TRUE

\* Chart.to_light_model: the dataclass refuses a keyword that is not one of
\* its fields and a field that gets no keyword.
to_light_model(self, seed) ==
    CHOOSE r \in
        {IF props.raised # "" THEN props
         ELSE IF props.value # ChartLightModel THEN Raise("TypeError")
         ELSE Return(props.value)
           : props \in {ReadAll(self, PROPS, seed)}} : TRUE

\* Chart.to_model
to_model(self, seed) ==
    CHOOSE r \in
        {IF light.raised # "" THEN light
         ELSE CHOOSE q \in
                  {IF props.raised # "" THEN props
                   ELSE Return({"personality", "design"} \cup props.value)
                     : props \in {ReadAll(self, SetIter(ChartLightModel, PROPS), seed)}} : TRUE
           : light \in {to_light_model(self, seed)}} : TRUE

CallExport ==
    /\ call = "none"
    /\ \E seed \in HashSeeds :
          \E method \in {"to_dict", "to_light_model", "to_model"} :
              \E r \in {CASE method = "to_dict" -> to_dict(chart, seed)
                          [] method = "to_light_model" -> to_light_model(chart, seed)
                          [] method = "to_model" -> to_model(chart, seed)} :
                  /\ call' = method
                  /\ defs' = IF r.raised = "" THEN SetIter(r.value, PROPS) ELSE <<>>
                  /\ raised' = r.raised
    /\ UNCHANGED <<chart, args, ret, flag>>

\* Charts built from two Imprints, and one read of an attribute or one
\* export by the caller.
SpecChart ==
    /\ InitImprints
    /\ [][\/ ReadAuthority
          \/ ReadCenters
          \/ ReadGates
          \/ ReadDefinitions
          \/ ReadType
          \/ ReadProfile
          \/ ReadCross
          \/ ReadDefinitionType
          \/ CallExport]_vars

\* Some classification of the Chart fails.
ClassificationFails(self) ==
    \/ \E seed \in HashSeeds : type(self, seed).raised # ""
    \/ \E seed \in HashSeeds : definition_type(self, seed).raised # ""
    \/ profile(self).raised # ""
    \/ cross(self).raised # ""

(***************************************************************************)
(* C13.  If the Type, Profile, Cross or Definition-Type computation of a   *)
(* Chart fails, the Chart computation is aborted as a whole: the caller    *)
(* obtains no derived attribute (Authority, Centers, Gates, Definitions)   *)
(* from that Chart.                                                        *)
(***************************************************************************)
C13_FailureAbortsTheChart ==
    (/\ call \in {"authority", "centers", "gates", "definitions"}
     /\ raised = "") => ~ClassificationFails(chart)

(***************************************************************************)
(* C14.  For every Chart whose classifications all succeed, to_dict,       *)
(* to_light_model and to_model return without raising a result that holds  *)
(* a value for every name of Chart.PROPS.                                  *)
(***************************************************************************)
C14_ExportHoldsEveryProp ==
    (/\ call \in {"to_dict", "to_light_model", "to_model"}
     /\ ~ClassificationFails(chart)) =>
        /\ raised = ""
        /\ Range(PROPS) \subseteq Range(defs)

(***************************************************************************)
(* Variables.                                                              *)
(***************************************************************************)
\* Orientations.get, on a number or on a numbered member (compared by num).
Orientations_get(value) == IF value < 4 THEN "Left" ELSE "Right"

\* Determinations.get_by_color_tone and Environments.get_by_color_tone: the
\* number (place in the table, from 1) of the member _<color>_<LEFT|RIGHT>.
get_by_color_tone(color, tone) ==
    2 * (color - 1) + (IF Orientations_get(tone) = "Left" THEN 1 ELSE 2)

\* VariableEnum.orientation of the four concrete Variables of the Chart:
\* Chart.motivation, Chart.perspective, Chart.determination, Chart.environment.
variable(self, key) ==
    LET activation ==
            CASE key = "pt" -> self.personality.activations["Sun"]
              [] key = "pb" -> self.personality.activations["North Node"]
              [] key = "dt" -> self.design.activations["Sun"]
              [] key = "db" -> self.design.activations["North Node"]
        num == IF key \in {"pt", "pb"}
               THEN activation.color
               ELSE get_by_color_tone(activation.color, activation.tone)
    IN  [num |-> num, orientation |-> Orientations_get(num)]

\* Chart.variable_orientations: the member of VariableOrientations whose key
\* is made of the four letters, with its four fields.
variable_orientations(self) ==
    [key \in {"pt", "pb", "dt", "db"} |-> variable(self, key).orientation]

MaxVariablePositions == 12

ReadVariableOrientations ==
    /\ call = "none"
    /\ call' = "variable_orientations"
    /\ ret' = variable_orientations(chart)
    /\ raised' = ""
    /\ UNCHANGED <<chart, args, flag, defs>>

\* Charts whose Suns and Nodes take several Colors and Tones, and one read
\* of the Variables' Orientations.
InitVariables ==
    /\ ChartComputed(MaxVariablePositions, 1, MaxVariablePositions, 0)
    /\ NothingRead

SpecVariables == InitVariables /\ [][ReadVariableOrientations]_vars

(***************************************************************************)
(* C15.  In Chart.variable_orientations each of the four Variables         *)
(* (Motivation: Personality Sun, Perspective: Personality North Node,      *)
(* Determination: Design Sun, Environment: Design North Node) is Left      *)
(* exactly when the Color of its Activation is below 4, Right otherwise.   *)
(* The Color is taken by its number, 1 to 6, as Orientations.get does.     *)
(***************************************************************************)
C15_OrientationFollowsColor ==
    call = "variable_orientations" =>
        /\ ret["pt"] = "Left" <=> chart.personality.activations["Sun"].color < 4
        /\ ret["pb"] = "Left" <=> chart.personality.activations["North Node"].color < 4
        /\ ret["dt"] = "Left" <=> chart.design.activations["Sun"].color < 4
        /\ ret["db"] = "Left" <=> chart.design.activations["North Node"].color < 4

(***************************************************************************)
(* Activation._compute_data called on an angle.  The angles are the        *)
(* multiples of 1/64 of a degree, which doubles hold exactly and among     *)
(* which one lower boundary of a cell in three lies, and the few doubles   *)
(* that follow each of them (a double in [2^e, 2^(e+1)) degrees is 2^(e-52)*)
(* degree away from the next).                                             *)
(***************************************************************************)
MaxUlps == 1

InitAngles ==
    /\ chart = Chart({})
    /\ call = "none"
    /\ \E k \in 0..(GridPositions - 1), j \in 0..MaxUlps :
          LET binade == CHOOSE q \in {2^i : i \in 0..14} : q <= k /\ k < 2 * q
          IN  /\ k = 0 => j = 0
              /\ args = [angle |-> [u |-> 3 * k, d |-> IF k = 0 THEN 0 ELSE j * 384 * binade]]
    /\ ret = ""
    /\ flag = FALSE
    /\ defs = <<>>
    /\ raised = ""

CallComputeData ==
    /\ call = "none"
    /\ call' = "_compute_data"
    /\ \E r \in {compute_data(args.angle)} :
          /\ ret' = r
          /\ raised' = r.raised
    /\ UNCHANGED <<chart, args, flag, defs>>

SpecActivation == InitAngles /\ [][CallComputeData]_vars

(***************************************************************************)
(* C19.  The decomposition maps every angle of [0, 360) to exactly one of  *)
(* the 69,120 cells (Gate, Line, Color, Tone, Base); each wheel index 0 to *)
(* 63 belongs to exactly one Gate; and the angle at the lower boundary of  *)
(* a cell decomposes to that cell.  The cell of an angle is counted in     *)
(* Bases of 1/192 of a degree from the start of the Wheel.                 *)
(***************************************************************************)
C19_DecompositionIsExact ==
    /\ \A index \in 0..(NUM_GATES - 1) :
           Cardinality({gate \in Gates : wheel_index[gate] = index}) = 1
    /\ call = "_compute_data" =>
           LET n == args.angle.u
           IN  /\ raised = ""
               /\ ret.gate \in Gates /\ wheel_index[ret.gate] = n \div GATE_SEGMENT.u
               /\ ret.line = (n % GATE_SEGMENT.u) \div LINE_SEGMENT.u + 1
               /\ ret.color = (n % LINE_SEGMENT.u) \div COLOR_SEGMENT.u + 1
               /\ ret.tone = (n % COLOR_SEGMENT.u) \div 5 + 1
               /\ ret.base = (n % 5) + 1

(***************************************************************************)
(* get_design_datetime.  The ephemeris is outside the program: a sample of *)
(* the Sun either meets the tolerance or leaves the target on one side,    *)
(* and the Sun always moves forward (current_speed > 0), so that the       *)
(* Newton step has the sign of diff.  The frame of the call is in args:    *)
(* current_jd counts the steps the estimate moved later, sampled_jd is the *)
(* estimate at which the Sun was last sampled.  flag tells whether the     *)
(* warning was printed.                                                    *)
(***************************************************************************)
MAX_ITERATIONS == 10

\* Fractions of a second, in tenths of a microsecond, that swe.jdut1_to_utc
\* may report for the returned Julian day.
SecondFractions == {0, 9999994, 9999996}

\* julian_to_datetime: the fraction of the second is rounded to whole
\* microseconds, and datetime() refuses a microsecond outside 0..999999.
julian_to_datetime(jd, fraction) ==
    LET microsecond == (fraction + 5) \div 10
    IN  IF microsecond \in 0..999999
        THEN Return([jd |-> jd, microsecond |-> microsecond])
        ELSE Raise("ValueError")

InitSolver ==
    /\ chart = Chart({})
    /\ call = "get_design_datetime"
    /\ args = [pc |-> "for", iterations |-> 0, current_jd |-> 0, sampled_jd |-> 0,
               met |-> FALSE]
    /\ ret = <<>>
    /\ flag = FALSE
    /\ defs = <<>>
    /\ raised = ""

\* One turn of the loop: sample the Sun at current_jd, stop when diff is
\* within the tolerance, else move the estimate by diff / current_speed.
Sample ==
    /\ call = "get_design_datetime"
    /\ args.pc = "for"
    /\ args.iterations < MAX_ITERATIONS
    /\ \E diff \in {-1, 0, 1} :
          args' = [pc |-> IF diff = 0 THEN "return" ELSE "for",
                   iterations |-> args.iterations + 1,
                   current_jd |-> args.current_jd + diff,
                   sampled_jd |-> args.current_jd,
                   met |-> diff = 0]
    /\ UNCHANGED <<chart, call, ret, flag, defs, raised>>

\* The else branch of the loop: range(MAX_ITERATIONS) is used up.
Warn ==
    /\ call = "get_design_datetime"
    /\ args.pc = "for"
    /\ args.iterations = MAX_ITERATIONS
    /\ args' = [args EXCEPT !.pc = "return"]
    /\ flag' = TRUE
    /\ UNCHANGED <<chart, call, ret, defs, raised>>

\* return julian_to_datetime(current_jd), longitude
ReturnDesign ==
    /\ call = "get_design_datetime"
    /\ args.pc = "return"
    /\ \E fraction \in SecondFractions :
          \E r \in {julian_to_datetime(args.current_jd, fraction)} :
              /\ ret' = IF r.raised = "" THEN <<r.value, args.sampled_jd>> ELSE <<>>
              /\ raised' = r.raised
    /\ args' = [args EXCEPT !.pc = "done"]
    /\ UNCHANGED <<chart, call, flag, defs>>

SpecSolver ==
    /\ InitSolver
    /\ [][Sample \/ Warn \/ ReturnDesign]_vars
    /\ WF_args(Sample \/ Warn \/ ReturnDesign)

(***************************************************************************)
(* C20.  get_design_datetime samples the Sun at most 10 times and always   *)
(* terminates returning a pair (datetime, longitude); when no sample meets *)
(* the tolerance it prints a warning and returns the last estimate without *)
(* raising.                                                                *)
(***************************************************************************)
C20_SolverAlwaysReturns ==
    call = "get_design_datetime" =>
        /\ args.iterations <= 10
        /\ (args.pc = "done" =>
               /\ raised = ""
               /\ ret[1].jd = args.current_jd
               /\ (flag <=> ~args.met))

\* The part of C20 that holds: the call always comes to its end, and the
\* loop itself never raises.
SolverTerminates == <>(call = "get_design_datetime" /\ args.pc = "done")

SolverLoopNeverRaises ==
    call = "get_design_datetime" /\ args.pc # "done" => raised = ""


(***************************************************************************)
(* get_design_datetime with its numbers.  A quantity is [whole, part]:     *)
(* whole degrees (or days) and a rest counted in halves of                 *)
(* TOLERANCE_DEGREES, 0 <= part < PartsPerUnit.  Instants are counted from *)
(* birth_jd.  The Sun is the environment: over one Newton step it moves by *)
(* `true` hundredths of a degree per day while the ephemeris reports       *)
(* `speed`.                                                                *)
(***************************************************************************)
\* 1 / TOLERANCE_DEGREES
TolerancePerDegree == 36000000

PartsPerUnit == 2 * TolerancePerDegree

Quantity(whole, part) == [whole |-> whole, part |-> part]

\* floor(a * n / d) for 0 <= a, n and 0 < d, without leaving 32 bits.
MulDiv(a, n, d) == (a \div d) * n + ((a % d) * n) \div d

Plus(a, b) ==
    Quantity(a.whole + b.whole + (a.part + b.part) \div PartsPerUnit,
             (a.part + b.part) % PartsPerUnit)

Less(a, b) ==
    Quantity(a.whole - b.whole - (IF a.part < b.part THEN 1 ELSE 0),
             (a.part - b.part) % PartsPerUnit)

\* a * n / d, rounded down.
Scaled(a, n, d) ==
    Plus(Quantity((a.whole * n) \div d, MulDiv(PartsPerUnit, (a.whole * n) % d, d)),
         Quantity(0, MulDiv(a.part, n, d)))

\* swe.degnorm
degnorm(a) == Quantity(a.whole % 360, a.part)

\* abs(diff) < TOLERANCE_DEGREES
within_tolerance(diff) ==
    \/ diff.whole = 0 /\ diff.part < 2
    \/ diff.whole = -1 /\ diff.part > PartsPerUnit - 2

\* The difference that is not brought into [-180, 180).
shortest_arc_unwrapped(design_lon, longitude) == Less(design_lon, longitude)

\* diff = (design_lon - longitude + 180) % 360 - 180
shortest_arc(design_lon, longitude) ==
    Quantity(((Less(design_lon, longitude).whole + 180) % 360) - 180,
             Less(design_lon, longitude).part)

\* AVG_DIFF_DAYS = DESIGN_IMPRINT_DEGREES / AVG_SUN_SPEED = 88 / 0.985
AVG_DIFF_DAYS == Scaled(Quantity(88, 0), 1000, 985)

\* The known least and greatest speeds of the Sun, and one between.
SunSpeeds == {95, 98, 102}

\* What the ephemeris may give over one step: the Sun's motion and the
\* reported speed both within the known speeds; or, for a Sun outside
\* them, a reported speed of twice the motion.
Suns(bounded) ==
    IF bounded
    THEN {[true |-> 95, speed |-> 102], [true |-> 102, speed |-> 95],
          [true |-> 98, speed |-> 98]}
    ELSE {[true |-> 98, speed |-> 196]}

\* Longitudes of the Sun at birth; the first three put the target on the
\* seam between 360 and 0 degrees.
BirthLongitudes ==
    {Quantity(88, 0), Quantity(87, PartsPerUnit - 1), Quantity(89, 12345),
     Quantity(3, 777), Quantity(200, 54321)}

\* birth_jd, birth_lon, design_lon and the first estimate; sun is the
\* Sun's longitude at current_jd.
InitNewton ==
    \E bounded \in BOOLEAN :
      \E birth_lon \in BirthLongitudes :
        \E motion \in SunSpeeds :
            /\ chart = Chart({})
            /\ call = "get_design_datetime"
            /\ args = [pc |-> "for", iterations |-> 0, met |-> FALSE,
                       bounded |-> bounded,
                       birth_dt |-> [jd |-> Quantity(0, 0), microsecond |-> 0],
                       birth_lon |-> birth_lon,
                       design_lon |-> degnorm(Less(birth_lon, Quantity(88, 0))),
                       current_jd |-> Less(Quantity(0, 0), AVG_DIFF_DAYS),
                       sampled_jd |-> Quantity(0, 0),
                       longitude |-> Quantity(0, 0),
                       sun |-> degnorm(Less(birth_lon, Scaled(AVG_DIFF_DAYS, motion, 100)))]
            /\ ret = <<>>
            /\ flag = FALSE
            /\ defs = <<>>
            /\ raised = ""

\* One turn of the loop with its numbers: the sample, the test of the
\* tolerance, and the Newton step current_jd += diff / current_speed.
NewtonSample ==
    /\ call = "get_design_datetime"
    /\ args.pc = "for"
    /\ args.iterations < MAX_ITERATIONS
    /\ \E diff \in {shortest_arc(args.design_lon, args.sun)} :
          IF within_tolerance(diff)
          THEN args' = [args EXCEPT !.pc = "return",
                                    !.iterations = @ + 1,
                                    !.met = TRUE,
                                    !.longitude = args.sun,
                                    !.sampled_jd = args.current_jd]
          ELSE \E s \in Suns(args.bounded) :
                  args' = [args EXCEPT !.iterations = @ + 1,
                                       !.longitude = args.sun,
                                       !.sampled_jd = args.current_jd,
                                       !.current_jd = Plus(@, Scaled(diff, 100, s.speed)),
                                       !.sun = degnorm(Plus(@, Scaled(diff, s.true, s.speed)))]
    /\ UNCHANGED <<chart, call, ret, flag, defs, raised>>

\* The two Imprints with their instants exchanged.
Chart_init_swapped(dt, design_dt) == [design |-> [dt |-> dt], personality |-> [dt |-> design_dt]]

\* Chart.__init__: the two Imprints and their instants.
Chart_init(dt, design_dt) == [design |-> [dt |-> design_dt], personality |-> [dt |-> dt]]

\* Chart(dt), once get_design_datetime has returned.
BuildChart ==
    /\ call = "get_design_datetime"
    /\ args.pc = "done"
    /\ raised = ""
    /\ chart' = Chart_init(args.birth_dt, ret[1])
    /\ args' = [args EXCEPT !.pc = "built"]
    /\ UNCHANGED <<call, ret, flag, defs, raised>>

SpecNewton == InitNewton /\ [][NewtonSample \/ Warn \/ ReturnDesign \/ BuildChart]_vars

\* Under a Sun within its known speeds the loop stops on the tolerance
\* before range(MAX_ITERATIONS) is used up.
NewtonConverges ==
    call = "get_design_datetime" /\ args.bounded => ~flag

\* The arc from a to b, one way round or the other, is shorter than
\* TOLERANCE_DEGREES.
LessThanToleranceApart(a, b) ==
    \/ (Less(a, b).whole % 360 = 0 /\ Less(a, b).part < 2)
    \/ (Less(b, a).whole % 360 = 0 /\ Less(b, a).part < 2)

C22_LongitudeIsOfReturnedInstant ==
    call = "get_design_datetime" /\ args.pc = "done" /\ raised = "" =>
        ret[2] = ret[1].jd

\* The part of C22 that holds: after a stop on the tolerance the longitude
\* is the one sampled at the returned instant.
EarlyStopReturnsItsSample ==
    call = "get_design_datetime" /\ args.pc = "done" /\ raised = "" /\ args.met =>
        ret[2] = ret[1].jd

(***************************************************************************)
(* C23.  For a Sun within its known speeds (0.95 to 1.02 degrees per day), *)
(* the Chart built for an instant has that instant as personality.dt and   *)
(* a design.dt strictly earlier.                                           *)
(***************************************************************************)
C23_DesignIsEarlier ==
    call = "get_design_datetime" /\ args.pc = "built" /\ args.bounded =>
        /\ chart.personality.dt = args.birth_dt
        /\ chart.design.dt.jd.whole < args.birth_dt.jd.whole

\* A Chart built after several Newton steps, the target across the seam
\* from the Sun at birth.
C23_Witness ==
    /\ call = "get_design_datetime" /\ args.pc = "built" /\ args.bounded
    /\ args.iterations > 3
    /\ args.birth_lon.whole < 88
    /\ chart.design.dt.jd.whole < -85

(***************************************************************************)
(* Earth and South Node.  The Sun and the True Node stand on multiples of  *)
(* 1/64 degree or on one of the doubles next to them.                      *)
(***************************************************************************)
MaxEarthPositions == 6

NearPositions(n) ==
    {[u |-> p.u, d |-> IF p.u = 0 THEN 0 ELSE j * Ulp(p)] :
        p \in Positions(n), j \in (-MaxUlps)..MaxUlps}

InitEarth ==
    /\ \E sun \in NearPositions(MaxEarthPositions) :
         \E node \in NearPositions(MaxEarthPositions) :
            chart = ChartOf(Sky(node, start_angle(1), sun), Sky(sun, start_angle(2), node))
    /\ NothingRead

\* Imprint.__getitem__
ReadActivation ==
    /\ call = "none"
    /\ \E imprint \in {"design", "personality"}, planet \in Range(Planets) :
          /\ args' = [imprint |-> imprint, planet |-> planet]
          /\ ret' = chart[imprint].activations[planet]
    /\ call' = "__getitem__"
    /\ UNCHANGED <<chart, flag, defs, raised>>

SpecEarth == InitEarth /\ [][ReadActivation]_vars

\* The second body stands opposite the first: half a turn further (the
\* rounding part of the angle left aside), in the same Line, Color, Tone and
\* Base, its Gate 32 places further round the Wheel.
Opposite(first, second) ==
    /\ second.angle.u = (first.angle.u + Degrees(180).u) % FULL_CIRCLE.u
    /\ <<second.line, second.color, second.tone, second.base>>
           = <<first.line, first.color, first.tone, first.base>>
    /\ wheel_index[second.gate] = (wheel_index[first.gate] + 32) % 64

(***************************************************************************)
(* C24.  In every Imprint Earth stands half a turn from the Sun and the    *)
(* South Node half a turn from the North Node: the same Line, Color, Tone  *)
(* and Base, and a Gate exactly 32 places away on the Wheel.               *)
(***************************************************************************)
C24_OppositeBodies ==
    call = "__getitem__" =>
        /\ args.planet = "Earth" =>
               Opposite(chart[args.imprint].activations["Sun"], ret)
        /\ args.planet = "South Node" =>
               Opposite(chart[args.imprint].activations["North Node"], ret)

\* The part of C24 that holds: bodies on multiples of 1/64 degree.
OppositeOnTheGrid ==
    call = "__getitem__" /\ args.planet = "Earth"
        /\ chart[args.imprint].activations["Sun"].angle.d = 0 =>
            Opposite(chart[args.imprint].activations["Sun"], ret)


(***************************************************************************)
(* Memoized attributes read by several callers.  Every derived attribute   *)
(* of a Chart is a functools.cached_property: a read looks the attribute   *)
(* up in the instance dictionary; on a miss it runs the function, stores   *)
(* the value it returned under the attribute's name and returns it.  No    *)
(* lock is taken, so callers that all miss all run the function.  The      *)
(* function builds its value in local variables: definitions appends one   *)
(* group after the other to a local list.  The order in which the sets are *)
(* iterated is the same for every caller of a process.                     *)
(*                                                                         *)
(* call is the attribute, defs the instance dictionary's entry (<<>> when  *)
(* absent, <<value>> when stored), args.pc, args.val and args.computed the *)
(* position, the local value and whether the function ran, per caller; ret *)
(* is what each caller's read returned (<<>> before it returns).           *)
(***************************************************************************)

MaxCallers == 3

\* The Charts read by the callers have at most this many Defined Channels.
MaxCachedChannels == 2

Callers == 1..MaxCallers

\* The value the attribute's function returns.
Computed(self, attrname, seed) ==
    IF attrname = "definitions"
    THEN definitions(self, seed)
    ELSE SortedGates(self.gates)

\* Storing a value that is still being built.
cache_ready_early(val, full) == TRUE

\* The value is stored after the function has returned it.
cache_ready(val, full) == val = full

InitCallers ==
    /\ ChartBuilt(MaxCachedChannels, 0)
    /\ call \in {"definitions", "gates"}
    /\ \E seed \in HashSeeds :
          args = [seed     |-> seed,
                  pc       |-> [t \in Callers |-> "get"],
                  val      |-> [t \in Callers |-> <<>>],
                  computed |-> [t \in Callers |-> FALSE]]
    /\ ret = [t \in Callers |-> <<>>]
    /\ flag = FALSE
    /\ defs = <<>>
    /\ raised = ""

\* val = cache.get(attrname, _NOT_FOUND)
ReadCache(t) ==
    /\ args.pc[t] = "get"
    /\ IF defs = <<>>
       THEN /\ args' = [args EXCEPT !.pc[t] = "func", !.computed[t] = TRUE]
            /\ ret' = ret
       ELSE /\ args' = [args EXCEPT !.pc[t] = "done", !.val[t] = defs[1]]
            /\ ret' = [ret EXCEPT ![t] = <<defs[1]>>]
    /\ UNCHANGED <<chart, call, flag, defs, raised>>

\* One step of the function: definitions appends one more group to its
\* local list, gates builds its tuple in one expression.
RunFunction(t) ==
    /\ args.pc[t] = "func"
    /\ \E full \in {Computed(chart, call, args.seed)} :
          /\ args.val[t] # full
          /\ args' = [args EXCEPT !.val[t] =
                         IF call = "definitions" THEN Append(@, full[Len(@) + 1]) ELSE full]
    /\ UNCHANGED <<chart, call, ret, flag, defs, raised>>

\* cache[attrname] = val; return val
StoreAndReturn(t) ==
    /\ args.pc[t] = "func"
    /\ cache_ready(args.val[t], Computed(chart, call, args.seed))
    /\ defs' = <<args.val[t]>>
    /\ ret' = [ret EXCEPT ![t] = <<args.val[t]>>]
    /\ args' = [args EXCEPT !.pc[t] = "done"]
    /\ UNCHANGED <<chart, call, flag, raised>>

SpecCallers ==
    InitCallers /\ [][\E t \in Callers : ReadCache(t) \/ RunFunction(t) \/ StoreAndReturn(t)]_vars

CacheIsStable == [][defs # <<>> => defs' = defs]_vars

(***************************************************************************)
(* The two entry points and the instant they are given.  A datetime is     *)
(* modelled by its day (counted from 1 January 2000), the minute of that   *)
(* day on its own clock, and its tzinfo: <<>> when it carries no UTC       *)
(* offset, <<offset>> in minutes otherwise.  The Julian Day is counted in  *)
(* minutes from JD 2451545.0 (1 January 2000, 12:00 UTC).                  *)
(***************************************************************************)

MaxDay == 1

ClockMinutes == {0, 59, 60, 719, 720, 1380, 1439}

UtcOffsets == {<<>>, <<0>>, <<60>>, <<-300>>, <<330>>}

\* dt.astimezone(UTC) of an aware datetime.
astimezone_utc(dt) ==
    LET total == dt.day * 1440 + dt.minute - dt.tzinfo[1]
    IN  [day |-> total \div 1440, minute |-> total % 1440, tzinfo |-> <<0>>]

\* dt.replace(tzinfo=UTC)
replace_tzinfo_utc(dt) == [dt EXCEPT !.tzinfo = <<0>>]

parse_datetime_arg(dt) ==
    IF dt.tzinfo # <<>> THEN astimezone_utc(dt) ELSE replace_tzinfo_utc(dt)

datetime_to_julian(dt) ==
    IF dt.tzinfo = <<>>
    THEN Raise("ValueError")
    ELSE LET dt_utc == astimezone_utc(dt)
         IN  Return(dt_utc.day * 1440 + dt_utc.minute - 720)

InitInstant ==
    /\ chart = Chart({})
    /\ call = "none"
    /\ \E day \in 0..MaxDay, minute \in ClockMinutes, tzinfo \in UtcOffsets :
          args = [dt |-> [day |-> day, minute |-> minute, tzinfo |-> tzinfo]]
    /\ ret = <<>>
    /\ flag = FALSE
    /\ defs = <<>>
    /\ raised = ""

\* The command line: main() parses its argument and builds the Chart, whose
\* first step converts the instant to a Julian Day.
RunMain ==
    /\ call = "none"
    /\ call' = "main"
    /\ \E r \in {datetime_to_julian(parse_datetime_arg(args.dt))} :
          /\ raised' = r.raised
          /\ ret' = IF r.raised = "" THEN <<r.value>> ELSE <<>>
    /\ UNCHANGED <<chart, args, flag, defs>>

\* The library: Chart(dt) converts the instant it is given.
CallChart ==
    /\ call = "none"
    /\ call' = "Chart"
    /\ \E r \in {datetime_to_julian(args.dt)} :
          /\ raised' = r.raised
          /\ ret' = IF r.raised = "" THEN <<r.value>> ELSE <<>>
    /\ UNCHANGED <<chart, args, flag, defs>>

SpecInstant == InitInstant /\ [][RunMain \/ CallChart]_vars

\* The absolute instant a datetime denotes, its clock being UTC when it
\* carries no offset: minutes from JD 2451545.0.
AbsoluteInstant(dt) ==
    dt.day * 1440 + dt.minute - (IF dt.tzinfo = <<>> THEN 0 ELSE dt.tzinfo[1]) - 720

\* C26: through both entry points, the command line and Chart(dt), an
\* instant without UTC offset is taken as UTC and an instant with an offset
\* is converted to the same absolute instant: the Julian Day computed is
\* that of the absolute instant and nothing is raised.
C26_BothEntryPointsAssumeUtc ==
    call \in {"main", "Chart"} =>
        raised = "" /\ ret = <<AbsoluteInstant(args.dt)>>

\* The command line does so for every instant.
CommandLineAssumesUtc ==
    call = "main" => raised = "" /\ ret = <<AbsoluteInstant(args.dt)>>

\* Chart(dt) does so for the instants that carry an offset, and raises
\* ValueError for those that carry none.
ChartRequiresAnOffset ==
    call = "Chart" =>
        IF args.dt.tzinfo = <<>>
        THEN raised = "ValueError" /\ ret = <<>>
        ELSE raised = "" /\ ret = <<AbsoluteInstant(args.dt)>>

(***************************************************************************)
(* Reads of the states of the Gates, on Charts of few Defined Channels and *)
(* further Activated Gates.                                                *)
(***************************************************************************)
InitGateStates ==
    /\ ChartBuilt(MaxSplitChannels, MaxHanging)
    /\ call = "none"
    /\ args = NoArgs
    /\ ret = <<>>
    /\ flag = FALSE
    /\ defs = <<>>
    /\ raised = ""

ReadBridgingGates ==
    /\ call = "none"
    /\ call' = "bridging_gates"
    /\ ret' = bridging_gates(chart)
    /\ raised' = ""
    /\ UNCHANGED <<chart, args, flag, defs>>

ReadHangingGates ==
    /\ call = "none"
    /\ call' = "hanging_gates"
    /\ \E r \in {hanging_gates(chart)} :
          /\ raised' = r.raised
          /\ ret' = IF r.raised = "" THEN r.value ELSE <<>>
    /\ UNCHANGED <<chart, args, flag, defs>>

ReadDormantGates ==
    /\ call = "none"
    /\ call' = "dormant_gates"
    /\ ret' = dormant_gates(chart)
    /\ raised' = ""
    /\ UNCHANGED <<chart, args, flag, defs>>

SpecGateStates ==
    InitGateStates /\ [][ReadBridgingGates \/ ReadHangingGates \/ ReadDormantGates]_vars

\* The Gates that share a Channel with the Gate.
HarmonicGatesOf(gate) ==
    UNION {GatesOf[id] \ {gate} : id \in {i \in ChannelIds : gate \in GatesOf[i]}}

\* C27: every Gate listed in Chart.bridging_gates is Unactivated and is the
\* partner, in some Channel, of an Activated Gate; no Activated Gate is
\* listed.
C27_BridgingGatesAreUnactivated ==
    call = "bridging_gates" =>
        \A i \in 1..Len(ret) :
            /\ ret[i] \notin chart.gates
            /\ \E gate \in chart.gates : ret[i] \in HarmonicGatesOf(gate)

\* What bridging_gates lists instead: the second Gate of every Defined
\* Channel, once per Channel, all of them Activated.
BridgingGatesAreOfDefinedChannels ==
    call = "bridging_gates" =>
        /\ Len(ret) = Len(chart.channels)
        /\ \A i \in 1..Len(ret) :
              /\ ret[i] \in chart.gates
              /\ \E j \in 1..Len(chart.channels) : ret[i] = Channels[chart.channels[j]].gates[2]

\* C29: hanging_gates is exactly the Activated Gates that are in a Defined
\* Center and have no Activated Harmonic Gate, dormant_gates is exactly the
\* Activated Gates that are in an Undefined Center, and neither read raises.
C29_HangingAndDormantGates ==
    /\ call = "hanging_gates" =>
          /\ raised = ""
          /\ ret = SortedGates({gate \in chart.gates :
                                  /\ GateCenter[gate] \in Range(chart.centers)
                                  /\ HarmonicGatesOf(gate) \cap chart.gates = {}})
    /\ call = "dormant_gates" =>
          /\ raised = ""
          /\ ret = SortedGates({gate \in chart.gates :
                                  GateCenter[gate] \notin Range(chart.centers)})

\* dormant_gates alone is as described.
DormantGatesAreInUndefinedCenters ==
    call = "dormant_gates" =>
        /\ raised = ""
        /\ ret = SortedGates({gate \in chart.gates :
                                GateCenter[gate] \notin Range(chart.centers)})

\* hanging_gates raises AttributeError on every Chart that has a Defined
\* Center, and returns the empty tuple on the others.
HangingGatesRaiseWithADefinedCenter ==
    call = "hanging_gates" =>
        IF chart.centers # <<>>
        THEN raised = "AttributeError"
        ELSE raised = "" /\ ret = <<>>

\* C28: whenever the Authority is Outer Authority, every Defined Center is
\* Throat, Ajna or Head, and Ajna is Defined and joined by a Defined Channel
\* to Head or to Throat.
C28_OuterAuthorityIsMental ==
    call = "authority" /\ ret = "Outer Authority" =>
        /\ Range(chart.centers) \subseteq {"Throat", "Ajna", "Head"}
        /\ "Ajna" \in Range(chart.centers)
        /\ \E i \in 1..Len(chart.channels) :
              CentersOf[chart.channels[i]] \in {{"Ajna", "Head"}, {"Ajna", "Throat"}}

\* C28: Outer Authority read on a Chart whose Defined Centers are Head, Ajna
\* and Throat.
C28_Witness ==
    /\ call = "authority"
    /\ ret = "Outer Authority"
    /\ Range(chart.centers) = {"Throat", "Ajna", "Head"}

(***************************************************************************)
(* Determinations and Environments: twelve members each, numbered 1 to 12  *)
(* in the order of the table, every row naming a Color and an Orientation. *)
(***************************************************************************)

\* The fields color and orientation of the row of member number num, the
\* same in both tables: _1_LEFT, _1_RIGHT, _2_LEFT, ... _6_RIGHT.
VariableRows ==
    [num \in 1..(2 * NUM_COLORS) |->
        [color |-> (num + 1) \div 2,
         orientation |-> IF num % 2 = 1 THEN "Left" ELSE "Right"]]

\* member.orientation: the property of VariableEnum is found before the
\* field of the row and computes the Orientation from the member's number.
VariableEnum_orientation(num) == Orientations_get(num)

InitGetByColorTone ==
    /\ chart = Chart({})
    /\ call = "none"
    /\ \E cls \in {"Determinations", "Environments"}, color \in 1..NUM_COLORS, tone \in 1..NUM_TONES :
          args = [cls |-> cls, color |-> color, tone |-> tone]
    /\ ret = <<>>
    /\ flag = FALSE
    /\ defs = <<>>
    /\ raised = ""

\* cls.get_by_color_tone(color, tone), then orientation read from the member
\* returned: ret is the member's number and the Orientation read.
CallGetByColorTone ==
    /\ call = "none"
    /\ call' = "get_by_color_tone"
    /\ \E num \in {get_by_color_tone(args.color, args.tone)} :
          ret' = <<num, VariableEnum_orientation(num)>>
    /\ raised' = ""
    /\ UNCHANGED <<chart, args, flag, defs>>

SpecGetByColorTone == InitGetByColorTone /\ [][CallGetByColorTone]_vars

\* C30: get_by_color_tone(c, t) of Determinations and of Environments
\* returns the member whose row has Color c and Orientation Left when t is
\* below 4, Right otherwise, and orientation read from that member is the
\* Orientation of its row.
C30_OrientationIsTheCatalogRows ==
    call = "get_by_color_tone" =>
        /\ VariableRows[ret[1]].color = args.color
        /\ VariableRows[ret[1]].orientation = (IF args.tone < 4 THEN "Left" ELSE "Right")
        /\ ret[2] = VariableRows[ret[1]].orientation

\* The member returned is the one described.
GetByColorToneFindsTheRow ==
    call = "get_by_color_tone" =>
        /\ VariableRows[ret[1]].color = args.color
        /\ VariableRows[ret[1]].orientation = (IF args.tone < 4 THEN "Left" ELSE "Right")

\* The Orientation read from it is Left for the first three members of the
\* table and Right for the nine others.
OrientationReadFollowsTheNumber ==
    call = "get_by_color_tone" => ret[2] = (IF ret[1] < 4 THEN "Left" ELSE "Right")
=============================================================================
